---------------------------- MODULE Spec2Model ----------------------------
(***************************************************************************)
(* A model of bigbed-jaccard: the banded LSH index (src/src/lsh.rs), the   *)
(* OPH Hamming estimator it ranks with (src/src/oph.rs) and the interval   *)
(* flattening (src/src/bed.rs).                                            *)
(***************************************************************************)
EXTENDS Integers, Sequences, FiniteSets, TLC

VARIABLES
    n_hashes,   \* Lsh.n_hashes: L, the number of band tables
    n_values,   \* Lsh.n_values: K, the number of values per band
    sketches,   \* Lsh.sketches: id -> stored sketch
    hashers,    \* Lsh.hashers: band -> (chunk -> Vec of ids)
    call,       \* the last call made on the index and what it returned
    ins,        \* the insert in progress, step by step
    rdr,        \* the query or ranked_query in progress, step by step
    lock,       \* the Mutex around Lsh.hashers: None, or Some(its holder)
    stacks,     \* rayon worker -> its call stack, innermost frame last
    deques,     \* rayon worker -> its deque of jobs open to theft, oldest first
    latches,    \* the stolen jobs that have run to their end
    bulk,       \* the query_bulk call handed to the pool
    flat,       \* a call of intervals_to_vec: its input and what came of it
    sig_a,      \* a BoundedPriorityQueue: its queue_size and its heap
    sig_b,      \* a second BoundedPriorityQueue
    app,        \* a call of one of the other functions: its arguments and value
    fan         \* main's parallel map over the input files, one task per file

lshVars == <<n_hashes, n_values, sketches, hashers, call>>
stepVars == <<ins, rdr, lock>>
poolVars == <<stacks, deques, latches, bulk>>
flatVars == <<flat>>
sigVars == <<sig_a, sig_b>>
appVars == <<app>>
fanVars == <<fan>>

vars == <<lshVars, stepVars, poolVars, flatVars, sigVars, appVars, fanVars>>

(***************************************************************************)
(* Bounds and input sets.                                                  *)
(***************************************************************************)
\* Number of distinct sketch ids (V) the callers use.
NumIds == 2
\* Longest batch handed to query_bulk.
MaxBatch == 2

Ids == 1..NumIds
\* Hash values (K) a sketch is made of.
Vals == {1, 2}
\* The (n_hashes, n_values) pairs an index is built with.
Configs == {<<2, 2>>, <<3, 1>>, <<1, 2>>}

\* Sketches of the length the index expects.
SizedSketches == [1..(n_hashes * n_values) -> Vals]
\* Sketches one value short and one value long.
MisSizedSketches ==
    {[j \in 1..n |-> 1] : n \in {n_hashes * n_values - 1, n_hashes * n_values + 1}}
SketchInputs == SizedSketches \cup MisSizedSketches

(***************************************************************************)
(* Values: Option and Result.                                              *)
(***************************************************************************)
None == [tag |-> "None"]
Some(v) == [tag |-> "Some", val |-> v]
Ok(v) == [tag |-> "Ok", val |-> v]
Err(e) == [tag |-> "Err", err |-> e]
Panic == [tag |-> "panic"]

Bands == 0..(n_hashes - 1)

(***************************************************************************)
(* Lsh::new                                                                *)
(***************************************************************************)
EmptyMap == [x \in {} |-> <<>>]

\* A plausible slip: the loop of new stops one table short.
new_hashers_one_short == [i \in 0..(n_hashes - 2) |-> EmptyMap]

\* lsh.rs 53-56: one empty table per band, under the keys 0..n_hashes-1.
new_hashers == [i \in Bands |-> EmptyMap]

(***************************************************************************)
(* Lsh::chunk_sketch: slice::chunks(n_values) of a sketch of length        *)
(* n_hashes * n_values, or the error.                                      *)
(***************************************************************************)
\* slice::chunks(size): consecutive runs of `size` elements, the last one
\* shorter when the length is no multiple of size.
RECURSIVE chunks(_, _)
chunks(s, size) ==
    IF Len(s) = 0 THEN <<>>
    ELSE IF Len(s) <= size THEN <<s>>
    ELSE <<SubSeq(s, 1, size)>> \o chunks(SubSeq(s, size + 1, Len(s)), size)

\* A plausible slip: no length check before chunking.
chunk_sketch_unchecked(sketch) == Ok(chunks(sketch, n_values))

chunk_sketch(sketch) ==
    LET expected == n_hashes * n_values
    IN  IF Len(sketch) # expected
        THEN Err("IncorrectlyChunkedInput")
        ELSE Ok(chunks(sketch, n_values))

(***************************************************************************)
(* Lsh::insert                                                             *)
(***************************************************************************)
\* A plausible slip: the bucket is replaced instead of appended to.
insert_band_replacing(h, i, vals, id) ==
    IF i \in DOMAIN h THEN [h EXCEPT ![i] = (vals :> <<id>>) @@ @] ELSE h

\* A plausible slip: the closure of band i writes to the table of the next
\* band.
insert_band_next_table(h, i, vals, id) ==
    LET t == (i + 1) % n_hashes
    IN  IF t \in DOMAIN h
        THEN IF vals \in DOMAIN h[t]
             THEN [h EXCEPT ![t] = [@ EXCEPT ![vals] = Append(@, id)]]
             ELSE [h EXCEPT ![t] = (vals :> <<id>>) @@ @]
        ELSE h

\* The closure run for band i (lsh.rs 97-114): push the id on the bucket of
\* vals in table i, creating the bucket when there is none.
insert_band(h, i, vals, id) ==
    IF i \in DOMAIN h
    THEN IF vals \in DOMAIN h[i]
         THEN [h EXCEPT ![i] = [@ EXCEPT ![vals] = Append(@, id)]]
         ELSE [h EXCEPT ![i] = (vals :> <<id>>) @@ @]
    ELSE h

\* The par_iter().enumerate() over the chunks: closure i gets chunk i. The
\* Err a closure returns for a band without a table is collected and dropped.
RECURSIVE insert_bands(_, _, _, _)
insert_bands(h, chunked, id, i) ==
    IF i >= Len(chunked) THEN h
    ELSE insert_bands(insert_band(h, i, chunked[i + 1], id), chunked, id, i + 1)

\* A plausible slip: no first-write-wins check.
contains_key_never(id) == FALSE

\* lsh.rs 89: self.sketches.contains_key(&sketch_id)
contains_key(id) == id \in DOMAIN sketches

\* A run makes its inserts and then one query, as main does
\* (bigbed_oph_lsh.rs 40-46). The queries take &self and change no field, so
\* a call after a query would start from an index already covered.
Building == call.op \in {"new", "insert"}

\* What insert(sketch, id) leaves behind: the two maps and how the call ended.
insert(sketch, id) ==
    IF contains_key(id)
    THEN [sketches |-> sketches, hashers |-> hashers, outcome |-> "ignored"]
    ELSE LET stored == (id :> sketch) @@ sketches
             chunked == chunk_sketch(sketch)
         IN  IF chunked.tag = "Err"
             THEN \* unwrap() panics, after the sketch was stored
                  [sketches |-> stored, hashers |-> hashers, outcome |-> "panic"]
             ELSE [sketches |-> stored,
                   hashers |-> insert_bands(hashers, chunked.val, id, 0),
                   outcome |-> "stored"]

Insert ==
    /\ Building
    /\ \E sketch \in SketchInputs, id \in Ids :
        LET r == insert(sketch, id)
        IN  /\ sketches' = r.sketches
            /\ hashers' = r.hashers
            \* the sketch of an ignored insert is not kept: it left no trace
            /\ call' = IF r.outcome = "ignored"
                       THEN [op |-> "insert", id |-> id, outcome |-> r.outcome]
                       ELSE [op |-> "insert", id |-> id, outcome |-> r.outcome,
                             sketch |-> sketch]
            /\ UNCHANGED <<n_hashes, n_values, stepVars, poolVars, flatVars, sigVars, appVars, fanVars>>

(***************************************************************************)
(* Lsh::query                                                              *)
(***************************************************************************)
\* Vec::dedup: drops an element equal to the one before it.
RECURSIVE dedup(_)
dedup(s) ==
    IF Len(s) <= 1 THEN s
    ELSE IF s[1] = s[2] THEN dedup(Tail(s))
    ELSE <<s[1]>> \o dedup(Tail(s))

\* A plausible slip: every band's chunk is looked up in the table of band 0.
lookup_band_first_table(map, i, chunk) ==
    IF chunk \in DOMAIN map[0] THEN map[0][chunk] ELSE <<>>

\* The closure run for band i on the locked tables (lsh.rs 128-135).
lookup_band(map, i, chunk) ==
    IF chunk \in DOMAIN map[i] THEN map[i][chunk] ELSE <<>>

\* flatten().collect(): the bands' hits, concatenated in band order.
RECURSIVE collect_bands(_, _, _)
collect_bands(map, chunked, i) ==
    IF i >= Len(chunked) THEN <<>>
    ELSE lookup_band(map, i, chunked[i + 1]) \o collect_bands(map, chunked, i + 1)

\* A plausible slip: the hits are returned as collected, unsorted.
sort_ids_missing(s) == s

\* results.sort()
sort_ids(s) == SortSeq(s, LAMBDA a, b : a < b)

\* query on the tables `map`, the value of self.hashers under the lock.
query_locked(map, sketch) ==
    LET chunked == chunk_sketch(sketch)
    IN  IF chunked.tag = "Err" THEN Panic
        \* map.get(&i).unwrap() panics for a chunk without a table
        ELSE IF \E i \in 0..(Len(chunked.val) - 1) : i \notin DOMAIN map THEN Panic
        ELSE LET results == dedup(sort_ids(collect_bands(map, chunked.val, 0)))
             IN  IF results = <<>> THEN None ELSE Some(results)

query(sketch) == query_locked(hashers, sketch)

Query ==
    /\ Building
    /\ \E sketch \in SketchInputs :
        /\ call' = [op |-> "query", sketch |-> sketch, result |-> query(sketch)]
        /\ UNCHANGED <<n_hashes, n_values, sketches, hashers, stepVars,
                           poolVars, flatVars, sigVars, appVars, fanVars>>

(***************************************************************************)
(* Lsh::query_bulk                                                         *)
(***************************************************************************)
\* Orders in which n parallel closures can finish.
FinishOrders(n) ==
    {o \in [1..n -> 1..n] : \A a, b \in 1..n : a # b => o[a] # o[b]}

\* A plausible slip: the results are gathered in the order the closures
\* finish instead of the order of the input.
RECURSIVE collect_as_finished(_, _)
collect_as_finished(results, finish) ==
    IF finish = <<>> THEN <<>>
    ELSE <<results[Head(finish)]>> \o collect_as_finished(results, Tail(finish))

\* rayon's collect() of an indexed parallel iterator: the closure of input j
\* writes slot j, whenever it finishes.
RECURSIVE collect_indexed(_, _)
collect_indexed(results, finish) ==
    IF finish = <<>> THEN [j \in {} |-> None]
    ELSE (Head(finish) :> results[Head(finish)])
             @@ collect_indexed(results, Tail(finish))

\* The closure of query_bulk: self.query(sketch), for each sketch.
query_each(batch) == [j \in 1..Len(batch) |-> query(batch[j])]

\* What query_bulk returns when its closures returned `each` and finished in
\* the order `finish`. A query of the batch panics: the panic leaves
\* query_bulk.
query_bulk(each, finish) ==
    IF \E j \in 1..Len(each) : each[j] = Panic
    THEN Panic
    ELSE Ok(collect_indexed(each, finish))

\* The batches handed to query_bulk: sketches of the expected length and
\* one that is a value short.
BatchInputs == SizedSketches \cup {[j \in 1..(n_hashes * n_values - 1) |-> 1]}

Batches == UNION {[1..n -> BatchInputs] : n \in 0..MaxBatch}

QueryBulk ==
    /\ Building
    /\ \E batch \in Batches :
        LET each == query_each(batch)
        IN  \E finish \in FinishOrders(Len(batch)) :
                /\ call' = [op |-> "query_bulk", batch |-> batch,
                            result |-> query_bulk(each, finish)]
                /\ UNCHANGED <<n_hashes, n_values, sketches, hashers, stepVars,
                           poolVars, flatVars, sigVars, appVars, fanVars>>

(***************************************************************************)
(* OnePermutationHasher::jaccard (oph.rs) and Lsh::get_top_hits,           *)
(* Lsh::ranked_query.                                                      *)
(***************************************************************************)
\* The number of positions on which two equally long sketches agree.
shared(a, b) == Cardinality({j \in 1..Len(a) : a[j] = b[j]})

\* A plausible slip: the shorter sketch decides, and no length is checked.
jaccard_of_shorter(dense_sketch_1, dense_sketch_2) ==
    LET total == Len(dense_sketch_1)
        zipped == IF Len(dense_sketch_2) < total THEN Len(dense_sketch_2)
                  ELSE total
    IN  Ok(<<Cardinality({j \in 1..zipped :
                            dense_sketch_1[j] = dense_sketch_2[j]}), total>>)

\* shared as f64 / total as f64, kept as the fraction <<shared, total>>.
jaccard(dense_sketch_1, dense_sketch_2) ==
    LET total == Len(dense_sketch_1)
    IN  IF Len(dense_sketch_2) # total
        THEN Err("SketchLengthMismatch")
        ELSE Ok(<<shared(dense_sketch_1, dense_sketch_2), total>>)

\* Comparison of two f64 quotients of small integers.
FracLess(x, y) == x[1] * y[2] < y[1] * x[2]
FracEq(x, y) == x[1] * y[2] = y[1] * x[2]

\* A plausible slip: the hits compared by similarity alone.
hit_before_by_jac(a, b) == FracLess(b.jac, a.jac)

\* sort_by(|a, b| b.partial_cmp(a)) on (jac, id) tuples: a goes before b when
\* b < a, tuples compared field by field.
hit_before(a, b) ==
    \/ FracLess(b.jac, a.jac)
    \/ FracEq(b.jac, a.jac) /\ b.id < a.id

\* slice::sort_by is stable: an element goes after the elements it is not
\* before.
RECURSIVE place_hit(_, _)
place_hit(sorted, x) ==
    IF sorted = <<>> THEN <<x>>
    ELSE IF hit_before(x, Head(sorted)) THEN <<x>> \o sorted
    ELSE <<Head(sorted)>> \o place_hit(Tail(sorted), x)

RECURSIVE sort_hits(_, _)
sort_hits(ranking, done) ==
    IF ranking = <<>> THEN done
    ELSE sort_hits(Tail(ranking), place_hit(done, Head(ranking)))

\* get_top_hits on the stored sketches `stored`, the value of self.sketches.
\* self.sketches.get(result).unwrap() panics for an id without a sketch.
get_top_hits(stored, results, query_sketch) ==
    IF results.tag = "None" THEN None
    ELSE IF \E j \in 1..Len(results.val) : results.val[j] \notin DOMAIN stored
    THEN Panic
    ELSE LET res == results.val
             jacs == [j \in 1..Len(res) |-> jaccard(stored[res[j]], query_sketch)]
         IN  IF \E j \in 1..Len(res) : jacs[j].tag = "Err"
             THEN Panic
             ELSE LET ranking == [j \in 1..Len(res) |->
                                     [jac |-> jacs[j].val, id |-> res[j]]]
                  IN  Some(sort_hits(ranking, <<>>))

ranked_query_on(stored, map, query_sketch) ==
    LET results == query_locked(map, query_sketch)
    IN  IF results = Panic THEN Panic
        ELSE get_top_hits(stored, results, query_sketch)

ranked_query(query_sketch) == ranked_query_on(sketches, hashers, query_sketch)

RankedQuery ==
    /\ Building
    /\ \E sketch \in SketchInputs :
        /\ call' = [op |-> "ranked_query", sketch |-> sketch,
                    result |-> ranked_query(sketch)]
        /\ UNCHANGED <<n_hashes, n_values, sketches, hashers, stepVars,
                           poolVars, flatVars, sigVars, appVars, fanVars>>

(***************************************************************************)
(* insert and query step by step: the borrows the two calls take, the      *)
(* statements of insert in program order, the Mutex around each band       *)
(* closure of insert and around the lookup of query.                       *)
(***************************************************************************)
\* insert takes &mut self (lsh.rs 88): the call starts only when no other
\* borrow of the index is live.
exclusive_borrow == rdr.pc = "idle"

\* A plausible slip: insert on &self behind the Mutex alone, so that a query
\* may start while an insert is under way.
shared_borrow_unchecked == TRUE

\* query and ranked_query take &self (lsh.rs 121, 173): the call starts only
\* when no &mut borrow is live.
shared_borrow == ins.pc = "idle"

\* lsh.rs 88-92: the first-write-wins check, then the sketch is stored.
InsBegin ==
    /\ Building
    /\ ins.pc = "idle"
    /\ exclusive_borrow
    /\ \E sketch \in SketchInputs, id \in Ids :
        IF contains_key(id)
        THEN /\ call' = [op |-> "insert", id |-> id, outcome |-> "ignored"]
             /\ UNCHANGED <<sketches, ins>>
        ELSE /\ sketches' = (id :> sketch) @@ sketches
             /\ ins' = [pc |-> "chunk", id |-> id, sketch |-> sketch]
             /\ UNCHANGED call
    /\ UNCHANGED <<n_hashes, n_values, hashers, rdr, lock, poolVars, flatVars, sigVars, appVars, fanVars>>

\* lsh.rs 93: chunk_sketch(sketch).unwrap(), then one closure per band.
InsChunk ==
    /\ ins.pc = "chunk"
    /\ LET chunked == chunk_sketch(ins.sketch)
       IN  IF chunked.tag = "Err"
           THEN /\ ins' = [pc |-> "idle"]
                /\ call' = [op |-> "insert", id |-> ins.id, outcome |-> "panic",
                            sketch |-> ins.sketch]
           ELSE /\ ins' = [pc |-> "bands", id |-> ins.id, sketch |-> ins.sketch,
                           chunked |-> chunked.val,
                           pending |-> 0..(Len(chunked.val) - 1)]
                /\ UNCHANGED call
    /\ UNCHANGED <<n_hashes, n_values, sketches, hashers, rdr, lock,
                   poolVars, flatVars, sigVars, appVars, fanVars>>

\* lsh.rs 98-99: the closure of some band takes the Mutex.
InsBandLock ==
    /\ ins.pc = "bands"
    /\ lock = None
    /\ \E i \in ins.pending :
        ins' = [pc |-> "band", id |-> ins.id, sketch |-> ins.sketch,
                chunked |-> ins.chunked, pending |-> ins.pending, at |-> i]
    /\ lock' = Some("insert")
    /\ UNCHANGED <<lshVars, rdr, poolVars, flatVars, sigVars, appVars, fanVars>>

\* lsh.rs 100-113: the closure pushes the id and drops the guard.
InsBandPush ==
    /\ ins.pc = "band"
    /\ hashers' = insert_band(hashers, ins.at, ins.chunked[ins.at + 1], ins.id)
    /\ ins' = [pc |-> "bands", id |-> ins.id, sketch |-> ins.sketch,
               chunked |-> ins.chunked, pending |-> ins.pending \ {ins.at}]
    /\ lock' = None
    /\ UNCHANGED <<n_hashes, n_values, sketches, call, rdr, poolVars, flatVars, sigVars, appVars, fanVars>>

\* lsh.rs 115-116: every closure was collected, insert returns.
InsReturn ==
    /\ ins.pc = "bands"
    /\ ins.pending = {}
    /\ ins' = [pc |-> "idle"]
    /\ call' = [op |-> "insert", id |-> ins.id, outcome |-> "stored",
                sketch |-> ins.sketch]
    /\ UNCHANGED <<n_hashes, n_values, sketches, hashers, rdr, lock,
                   poolVars, flatVars, sigVars, appVars, fanVars>>

\* lsh.rs 121-122 (for ranked_query: 173-174): the call and its
\* chunk_sketch(sketch).unwrap().
RdCall ==
    /\ Building
    /\ rdr.pc = "idle"
    /\ shared_borrow
    /\ \E kind \in {"query", "ranked_query"}, sketch \in SketchInputs :
        IF chunk_sketch(sketch).tag = "Err"
        THEN /\ call' = [op |-> kind, sketch |-> sketch, result |-> Panic]
             /\ UNCHANGED rdr
        ELSE /\ rdr' = [pc |-> "lock", kind |-> kind, sketch |-> sketch]
             /\ UNCHANGED call
    /\ UNCHANGED <<n_hashes, n_values, sketches, hashers, ins, lock,
                   poolVars, flatVars, sigVars, appVars, fanVars>>

\* lsh.rs 124: hashers.lock().unwrap()
RdLock ==
    /\ rdr.pc = "lock"
    /\ lock = None
    /\ lock' = Some("query")
    /\ rdr' = [pc |-> "lookup", kind |-> rdr.kind, sketch |-> rdr.sketch]
    /\ UNCHANGED <<lshVars, ins, poolVars, flatVars, sigVars, appVars, fanVars>>

\* lsh.rs 125-145: the lookups under the guard; query returns and the guard
\* is dropped.
RdLookup ==
    /\ rdr.pc = "lookup"
    /\ lock' = None
    /\ LET results == query_locked(hashers, rdr.sketch)
       IN  IF rdr.kind = "query"
           THEN /\ call' = [op |-> "query", sketch |-> rdr.sketch,
                            result |-> results]
                /\ rdr' = [pc |-> "idle"]
           ELSE /\ rdr' = [pc |-> "rank", kind |-> rdr.kind,
                           sketch |-> rdr.sketch, results |-> results]
                /\ UNCHANGED call
    /\ UNCHANGED <<n_hashes, n_values, sketches, hashers, ins, poolVars, flatVars, sigVars, appVars, fanVars>>

\* lsh.rs 175: get_top_hits on what query returned.
RdRank ==
    /\ rdr.pc = "rank"
    /\ call' = [op |-> "ranked_query", sketch |-> rdr.sketch,
                result |-> get_top_hits(sketches, rdr.results, rdr.sketch)]
    /\ rdr' = [pc |-> "idle"]
    /\ UNCHANGED <<n_hashes, n_values, sketches, hashers, ins, lock,
                   poolVars, flatVars, sigVars, appVars, fanVars>>

(***************************************************************************)
(* query_bulk on the rayon pool. A parallel iterator over a slice is run   *)
(* by join: the range is halved, the right half goes on the worker's       *)
(* deque, the left half runs at once; back from the left half the worker   *)
(* takes the right half off its deque, or, when it was stolen, runs other  *)
(* jobs it steals until the thief is done. With no more items than         *)
(* workers a range is halved down to single items.                         *)
(***************************************************************************)
\* Threads of the rayon pool.
NumWorkers == 3
\* Longest batch handed to query_bulk on the pool.
BatchLen == 3

Workers == 1..NumWorkers

\* Items [lo, hi) of a parallel iterator: of the batch ("bulk": the call
\* itself, "queries": a part of it) or of the bands of query q ("bands").
Job(k, q, lo, hi) == [k |-> k, q |-> q, lo |-> lo, hi |-> hi]

Frame(f, job) == [f |-> f, job |-> job]

Top(s) == s[Len(s)]
Pop(s) == SubSeq(s, 1, Len(s) - 1)

\* Worker w is at a frame of kind f.
At(w, f) ==
    /\ bulk.st = "running"
    /\ stacks[w] # <<>>
    /\ Top(stacks[w]).f = f

\* Worker w takes the oldest job of v's deque and runs it.
StealFrom(w, v) ==
    /\ v # w
    /\ deques[v] # <<>>
    /\ deques' = [deques EXCEPT ![v] = Tail(@)]
    /\ stacks' = [stacks EXCEPT ![w] =
                     @ \o <<Frame("job", Head(deques[v])),
                            Frame("run", Head(deques[v]))>>]

\* lsh.rs 148-152: query_bulk is called from outside the pool on a batch of
\* sketches of the expected length; the call is handed to the pool.
QueryBulkCall ==
    /\ bulk.st = "idle"
    /\ \E n \in 1..BatchLen : bulk' = [st |-> "injected", n |-> n]
    /\ UNCHANGED <<lshVars, stepVars, stacks, deques, latches, flatVars, sigVars, appVars, fanVars>>

\* A worker picks the call up.
TakeInjected ==
    /\ bulk.st = "injected"
    /\ \E w \in Workers :
        stacks' = [stacks EXCEPT ![w] =
                      <<Frame("job", Job("bulk", 0, 0, bulk.n)),
                        Frame("run", Job("bulk", 0, 0, bulk.n))>>]
    /\ bulk' = [st |-> "running", n |-> bulk.n]
    /\ UNCHANGED <<lshVars, stepVars, deques, latches, flatVars, sigVars, appVars, fanVars>>

\* A worker with nothing to do steals.
Steal ==
    /\ bulk.st = "running"
    /\ \E w \in Workers :
        /\ stacks[w] = <<>>
        /\ \E v \in Workers : StealFrom(w, v)
    /\ UNCHANGED <<lshVars, stepVars, latches, bulk, flatVars, sigVars, appVars, fanVars>>

\* par_iter() over more than one item (lsh.rs 150, 126): join.
Split ==
    /\ \E w \in Workers :
        /\ At(w, "run")
        /\ LET j == Top(stacks[w]).job
               mid == j.lo + ((j.hi - j.lo) \div 2)
               k == IF j.k = "bulk" THEN "queries" ELSE j.k
           IN  /\ j.hi - j.lo > 1
               /\ stacks' = [stacks EXCEPT ![w] =
                                Pop(@) \o <<Frame("join", Job(k, j.q, mid, j.hi)),
                                            Frame("run", Job(k, j.q, j.lo, mid))>>]
               /\ deques' = [deques EXCEPT ![w] = Append(@, Job(k, j.q, mid, j.hi))]
    /\ UNCHANGED <<lshVars, stepVars, latches, bulk, flatVars, sigVars, appVars, fanVars>>

\* lsh.rs 151, 121-123: the closure of query_bulk calls query on one sketch.
StartQuery ==
    /\ \E w \in Workers :
        /\ At(w, "run")
        /\ LET j == Top(stacks[w]).job
           IN  /\ j.k \in {"bulk", "queries"}
               /\ j.hi - j.lo = 1
               /\ stacks' = [stacks EXCEPT ![w] = Pop(@) \o <<Frame("lock", j)>>]
    /\ UNCHANGED <<lshVars, stepVars, deques, latches, bulk, flatVars, sigVars, appVars, fanVars>>

\* lsh.rs 124-126: query takes the Mutex and starts, the guard alive, the
\* parallel iterator over its bands. A worker that finds the Mutex held by
\* another thread sleeps in lock(): it steals nothing.
Lock ==
    /\ lock = None
    /\ \E w \in Workers :
        /\ At(w, "lock")
        /\ lock' = Some(w)
        /\ stacks' = [stacks EXCEPT ![w] =
                         Pop(@) \o <<Frame("locked", Top(@).job),
                                     Frame("run", Job("bands", Top(@).job.lo,
                                                      0, n_hashes))>>]
    /\ UNCHANGED <<lshVars, ins, rdr, deques, latches, bulk, flatVars, sigVars, appVars, fanVars>>

\* lsh.rs 124 on the thread that holds the Mutex: std::sync::Mutex::lock
\* "will not return" then, it "might panic or deadlock": the worker sleeps
\* for good, or the panic ends the call.
Relock ==
    /\ \E w \in Workers :
        /\ At(w, "lock")
        /\ lock = Some(w)
        /\ \/ /\ stacks' = [stacks EXCEPT ![w] =
                               Pop(@) \o <<Frame("relock", Top(@).job)>>]
              /\ UNCHANGED bulk
           \/ /\ bulk' = [st |-> "panicked", n |-> bulk.n]
              /\ UNCHANGED stacks
    /\ UNCHANGED <<lshVars, stepVars, deques, latches, flatVars, sigVars, appVars, fanVars>>

\* lsh.rs 128-135: the closure of one band, on the guard query holds.
LookupBand ==
    /\ \E w \in Workers :
        /\ At(w, "run")
        /\ LET j == Top(stacks[w]).job
           IN  /\ j.k = "bands"
               /\ j.hi - j.lo = 1
               /\ stacks' = [stacks EXCEPT ![w] = Pop(@)]
    /\ UNCHANGED <<lshVars, stepVars, deques, latches, bulk, flatVars, sigVars, appVars, fanVars>>

\* lsh.rs 137-145: the bands are collected, query returns, the guard drops.
Unlock ==
    /\ \E w \in Workers :
        /\ At(w, "locked")
        /\ lock' = None
        /\ stacks' = [stacks EXCEPT ![w] = Pop(@)]
    /\ UNCHANGED <<lshVars, ins, rdr, deques, latches, bulk, flatVars, sigVars, appVars, fanVars>>

\* Back from the left half, the right half still on the worker's own deque.
JoinPop ==
    /\ \E w \in Workers :
        /\ At(w, "join")
        /\ deques[w] # <<>>
        /\ Top(deques[w]) = Top(stacks[w]).job
        /\ deques' = [deques EXCEPT ![w] = Pop(@)]
        /\ stacks' = [stacks EXCEPT ![w] =
                         Pop(@) \o <<Frame("run", Top(@).job)>>]
    /\ UNCHANGED <<lshVars, stepVars, latches, bulk, flatVars, sigVars, appVars, fanVars>>

\* The right half was stolen and the thief is done with it.
JoinDone ==
    /\ \E w \in Workers :
        /\ At(w, "join")
        /\ Top(stacks[w]).job \in latches
        /\ latches' = latches \ {Top(stacks[w]).job}
        /\ stacks' = [stacks EXCEPT ![w] = Pop(@)]
    /\ UNCHANGED <<lshVars, stepVars, deques, bulk, flatVars, sigVars, appVars, fanVars>>

\* The right half was stolen and is not done: the worker steals meanwhile.
JoinSteal ==
    /\ \E w \in Workers :
        /\ At(w, "join")
        /\ deques[w] = <<>>
        /\ Top(stacks[w]).job \notin latches
        /\ \E v \in Workers : StealFrom(w, v)
    /\ UNCHANGED <<lshVars, stepVars, latches, bulk, flatVars, sigVars, appVars, fanVars>>

\* A stolen job ran to its end: its latch is set. The end of the job of the
\* call itself: query_bulk returns.
JobDone ==
    /\ \E w \in Workers :
        /\ At(w, "job")
        /\ stacks' = [stacks EXCEPT ![w] = Pop(@)]
        /\ IF Top(stacks[w]).job.k = "bulk"
           THEN bulk' = [st |-> "returned", n |-> bulk.n] /\ UNCHANGED latches
           ELSE latches' = latches \cup {Top(stacks[w]).job} /\ UNCHANGED bulk
    /\ UNCHANGED <<lshVars, stepVars, deques, flatVars, sigVars, appVars, fanVars>>

(***************************************************************************)
(* intervals_to_vec (bed.rs): the flattening of a list of intervals.       *)
(***************************************************************************)
\* Largest coordinate of an interval.
MaxPos == 3
\* Longest list of intervals.
MaxIntervals == 3

\* BedEntry: start <= end.
BedEntries ==
    {r \in [start : 0..MaxPos, end : 0..MaxPos] : r.start <= r.end}

\* The lists of intervals, in any order.
IntervalLists == UNION {[1..n -> BedEntries] : n \in 0..MaxIntervals}

\* The positions pushed by `for i in a..b`.
Range(a, b) == [j \in 1..(IF b > a THEN b - a ELSE 0) |-> a + j - 1]

\* bed.rs 156-172: the loop over data.iter().skip(1), at element i.
RECURSIVE intervals_loop(_, _, _, _)
intervals_loop(data, i, virtual_end, result) ==
    IF i > Len(data) THEN result
    ELSE LET start == data[i].start
             end == data[i].end
         IN  IF end <= virtual_end
             THEN intervals_loop(data, i + 1, virtual_end, result)
             ELSE IF start >= virtual_end
             THEN intervals_loop(data, i + 1, end, result \o Range(start, end))
             ELSE intervals_loop(data, i + 1, end, result \o Range(virtual_end, end))

\* bed.rs 145-174. data[0] of an empty slice is an index out of bounds.
intervals_to_vec(data) ==
    IF Len(data) = 0 THEN Panic
    ELSE Ok(intervals_loop(data, 2, data[1].end,
                           Range(data[1].start, data[1].end)))

IntervalsToVec ==
    /\ flat.pc = "called"
    /\ flat' = [pc |-> "done", data |-> flat.data,
                result |-> intervals_to_vec(flat.data)]
    /\ UNCHANGED <<lshVars, stepVars, poolVars, sigVars, appVars, fanVars>>

(***************************************************************************)
(* Unsigned integers of the program's widths. TLC's integers stop short of *)
(* 2^31, so a u32 or u64 is kept as its bytes, least significant first;   *)
(* a sequence of any length is the natural number it spells.               *)
(***************************************************************************)
\* n as bytes, for a natural number n of the model.
RECURSIVE FromInt(_)
FromInt(n) == IF n = 0 THEN <<>> ELSE <<n % 256>> \o FromInt(n \div 256)

\* The bytes without their leading zeros: one spelling per number.
Canon(a) ==
    LET used == {j \in 1..Len(a) : a[j] # 0}
        n == IF used = {} THEN 0 ELSE CHOOSE j \in used : \A i \in used : i <= j
    IN  SubSeq(a, 1, n)

\* The bytes of the number whose digit of weight 256^(j-1) is cols[j], a
\* natural number of the model that need not be below 256: bytes j and up,
\* `carry` coming in from below.
RECURSIVE Carried(_, _, _)
Carried(cols, j, carry) ==
    IF j > Len(cols) THEN FromInt(carry)
    ELSE <<(cols[j] + carry) % 256>>
             \o Carried(cols, j + 1, (cols[j] + carry) \div 256)

\* Byte j of a, 0 beyond its length.
ByteAt(a, j) == IF j \in 1..Len(a) THEN a[j] ELSE 0

\* a + b
Add(a, b) ==
    LET n == IF Len(a) > Len(b) THEN Len(a) ELSE Len(b)
    IN  Canon(Carried([j \in 1..n |-> ByteAt(a, j) + ByteAt(b, j)], 1, 0))

\* a * m, for a natural number m of the model below 2^15
MulSmall(a, m) == Canon(Carried([j \in 1..Len(a) |-> a[j] * m], 1, 0))

\* The sum of a[i] * b[k + 1 - i] over i = 1..k: column k of the long
\* multiplication.
RECURSIVE ColSum(_, _, _, _)
ColSum(a, b, k, i) ==
    IF i > k THEN 0
    ELSE ByteAt(a, i) * ByteAt(b, k + 1 - i) + ColSum(a, b, k, i + 1)

\* a * b, for a and b of at most 8 bytes
Mul(a, b) ==
    Canon(Carried([k \in 1..(Len(a) + Len(b)) |-> ColSum(a, b, k, 1)], 1, 0))

\* a mod 2^(8 * bytes), on exactly `bytes` bytes
Wrap(a, bytes) == [j \in 1..bytes |-> ByteAt(a, j)]

\* The number written as the decimal groups gs of three digits each, most
\* significant first, as in the literal 11_927_359.
RECURSIVE FromGroups(_)
FromGroups(gs) ==
    IF gs = <<>> THEN <<>>
    ELSE Add(MulSmall(FromGroups(SubSeq(gs, 1, Len(gs) - 1)), 1000),
             FromInt(gs[Len(gs)]))

(***************************************************************************)
(* hash (hash.rs)                                                          *)
(***************************************************************************)
\* hash.rs 2: const A: u64 = 11_927_359_292_700_924_260
A == Wrap(FromGroups(<<11, 927, 359, 292, 700, 924, 260>>), 8)

\* hash.rs 3: const B: u64 = 6_512_515_406_574_399_413
B == Wrap(FromGroups(<<6, 512, 515, 406, 574, 399, 413>>), 8)

\* A plausible slip: a product that does not fit stays at u64::MAX.
saturating_mul(a, b) ==
    IF Len(Mul(a, b)) > 8 THEN [j \in 1..8 |-> 255] ELSE Wrap(Mul(a, b), 8)

\* u64::overflowing_mul(..).0: the product, wrapped at 64 bits
overflowing_mul(a, b) == Wrap(Mul(a, b), 8)

\* u64::overflowing_add(..).0: the sum, wrapped at 64 bits
overflowing_add(a, b) == Wrap(Add(a, b), 8)

\* (u64 >> 32) as u32
shr_32(a) == SubSeq(a, 5, 8)

\* hash.rs 7-9, value a u32
hash(value) == shr_32(overflowing_add(overflowing_mul(A, Wrap(value, 8)), B))

\* The u32 arguments: every combination of four bytes out of four.
HashInputs == [1..4 -> {0, 1, 100, 255}]

\* hash.rs 7-9
Hash ==
    /\ app.pc = "called"
    /\ app.fn = "hash"
    /\ app' = [pc |-> "done", fn |-> "hash", value |-> app.value,
               result |-> hash(app.value)]
    /\ UNCHANGED <<lshVars, stepVars, poolVars, flatVars, sigVars, fanVars>>

(***************************************************************************)
(* BoundedPriorityQueue (bottom_k.rs): the bottom-k sketch. The heap is a  *)
(* min-queue, BinaryHeap<Reverse<HashWithValue>>: it is kept here as the   *)
(* sequence of its elements in the order pop() hands them out.             *)
(***************************************************************************)
\* Largest queue_size of a queue.
MaxK == 2
\* Most elements pushed on one queue.
MaxPushes == 3

\* The HashWithValue elements pushed: four values and their hashes, two of
\* the values with the same hash.
Elems ==
    {[hash |-> 2, value |-> 1], [hash |-> 1, value |-> 2],
     [hash |-> 2, value |-> 3], [hash |-> 3, value |-> 4]}

\* bottom_k.rs 10: the derived Ord of HashWithValue, hash first, then value.
elem_less(a, b) == a.hash < b.hash \/ (a.hash = b.hash /\ a.value < b.value)

\* BinaryHeap::push on the min-queue.
RECURSIVE heap_push(_, _)
heap_push(heap, elem) ==
    IF heap = <<>> THEN <<elem>>
    ELSE IF elem_less(elem, Head(heap)) THEN <<elem>> \o heap
    ELSE <<Head(heap)>> \o heap_push(Tail(heap), elem)

\* bottom_k.rs 32-34
push(self, elem) == [self EXCEPT !.heap = heap_push(@, elem)]

\* bottom_k.rs 39-44: pop from the heap into new_heap until new_heap holds
\* queue_size elements or the heap is empty.
RECURSIVE shrink_loop(_, _, _)
shrink_loop(heap, new_heap, queue_size) ==
    IF Len(new_heap) < queue_size /\ heap # <<>>
    THEN shrink_loop(Tail(heap), heap_push(new_heap, Head(heap)), queue_size)
    ELSE new_heap

\* bottom_k.rs 36-46
shrink_to_queue_size(self) ==
    [self EXCEPT !.heap = shrink_loop(@, <<>>, self.queue_size)]

\* BinaryHeap::from_iter
RECURSIVE heap_from_iter(_)
heap_from_iter(s) ==
    IF s = <<>> THEN <<>> ELSE heap_push(heap_from_iter(Tail(s)), Head(s))

\* A plausible slip: the merged queue is not cut down to queue_size.
merge_unshrunk(self, other) ==
    LET merged_heaps == dedup(SortSeq(self.heap \o other.heap,
                                      LAMBDA a, b : elem_less(b, a)))
    IN  [self EXCEPT !.heap = heap_from_iter(merged_heaps)]

\* A plausible slip: the chained heaps are not dedup()ed.
merge_undeduped(self, other) ==
    LET merged_heaps == SortSeq(self.heap \o other.heap,
                                LAMBDA a, b : elem_less(b, a))
        new_queue == [self EXCEPT !.heap = heap_from_iter(merged_heaps)]
    IN  shrink_to_queue_size(new_queue)

\* bottom_k.rs 48-64: the two heaps chained, sorted (as Reverse: largest
\* first), dedup()ed, made a heap of queue_size self.queue_size, and shrunk.
merge(self, other) ==
    LET merged_heaps == dedup(SortSeq(self.heap \o other.heap,
                                      LAMBDA a, b : elem_less(b, a)))
        new_queue == [self EXCEPT !.heap = heap_from_iter(merged_heaps)]
    IN  shrink_to_queue_size(new_queue)

\* bottom_k.rs 68-72: HashSet::from(&queue)
heap_set(queue) == {queue.heap[j] : j \in 1..Len(queue.heap)}

\* bottom_k.rs 86-93: jaccard, shared.count() as f64 / queue_size as f64
\* kept as the fraction <<count, queue_size>>.
bottom_k_jaccard(a, b) ==
    LET merged == heap_set(merge(a, b))
        a_intersect_b == heap_set(a) \cap heap_set(b)
        shared_elems == merged \cap a_intersect_b
    IN  <<Cardinality(shared_elems), a.queue_size>>

\* The two queues are built and compared as genome_wide_minhash and main do
\* (bigbed_jaccard_similarity_matrix.rs 48-58, 84-87): pushes, shrinks, one
\* jaccard.
SigBuilding == app.pc \in {"new", "built"}

\* bottom_k.rs 76-82: an element is pushed on one of the queues. `pushed`
\* keeps every element ever pushed on the queue.
Push ==
    /\ SigBuilding
    /\ \E elem \in Elems :
        \/ /\ Len(sig_a.heap) < MaxPushes
           /\ sig_a' = [push(sig_a, elem) EXCEPT !.pushed = @ \cup {elem}]
           /\ app' = [pc |-> "built", fn |-> "push", on |-> "a"]
           /\ UNCHANGED sig_b
        \/ /\ Len(sig_b.heap) < MaxPushes
           /\ sig_b' = [push(sig_b, elem) EXCEPT !.pushed = @ \cup {elem}]
           /\ app' = [pc |-> "built", fn |-> "push", on |-> "b"]
           /\ UNCHANGED sig_a
    /\ UNCHANGED <<lshVars, stepVars, poolVars, flatVars, fanVars>>

\* bottom_k.rs 36-46, called on one of the queues.
ShrinkToQueueSize ==
    /\ SigBuilding
    /\ \/ /\ sig_a' = shrink_to_queue_size(sig_a)
          /\ app' = [pc |-> "built", fn |-> "shrink_to_queue_size", on |-> "a"]
          /\ UNCHANGED sig_b
       \/ /\ sig_b' = shrink_to_queue_size(sig_b)
          /\ app' = [pc |-> "built", fn |-> "shrink_to_queue_size", on |-> "b"]
          /\ UNCHANGED sig_a
    /\ UNCHANGED <<lshVars, stepVars, poolVars, flatVars, fanVars>>

\* bottom_k.rs 48-64, called as test_queue_merge does (112-120) on the two
\* queues, either one as self: both are borrowed shared, the result is a new
\* queue.
Merge ==
    /\ SigBuilding
    /\ \E self \in {"a", "b"} :
        LET new_queue == IF self = "a" THEN merge(sig_a, sig_b)
                         ELSE merge(sig_b, sig_a)
        IN  app' = [pc |-> "built", fn |-> "merge", on |-> self,
                    result |-> [queue_size |-> new_queue.queue_size,
                                heap |-> new_queue.heap]]
    /\ UNCHANGED <<lshVars, stepVars, poolVars, flatVars, sigVars, fanVars>>

\* bottom_k.rs 86-93
BottomKJaccard ==
    /\ SigBuilding
    /\ app' = [pc |-> "done", fn |-> "jaccard",
               result |-> bottom_k_jaccard(sig_a, sig_b)]
    /\ UNCHANGED <<lshVars, stepVars, poolVars, flatVars, sigVars, fanVars>>

(***************************************************************************)
(* OnePermutationHasher (oph.rs): new, get_indicators, densify. A u32 is   *)
(* four bytes, least significant first. Arithmetic on u32 that leaves the  *)
(* type panics in a build with overflow checks (debug) and wraps in one    *)
(* without (release): overflow_checks is the build the program runs as.    *)
(***************************************************************************)
\* The remainder of the bytes j and up of a, taken as a number, by m
RECURSIVE RemFrom(_, _, _)
RemFrom(a, m, j) ==
    IF j > Len(a) THEN 0 ELSE (RemFrom(a, m, j + 1) * 256 + a[j]) % m

\* a div m, for a natural number m of the model in 1..2^15
DivSmall(a, m) ==
    Canon([j \in 1..Len(a) |-> (RemFrom(a, m, j + 1) * 256 + a[j]) \div m])

\* a mod m, a natural number of the model
ModSmall(a, m) == RemFrom(a, m, 1)

\* std::u32::MAX
U32_MAX == [j \in 1..4 |-> 255]

\* The u32 an operation with the exact result `exact` leaves.
u32_result(exact, overflow_checks) ==
    IF Len(Canon(exact)) > 4 /\ overflow_checks THEN Panic
    ELSE Ok(Wrap(exact, 4))

\* oph.rs 52: std::u32::MAX / (num_bins as u32) + 1
new_offset(num_bins, overflow_checks) ==
    IF num_bins = 0 THEN Panic
    ELSE u32_result(Add(DivSmall(U32_MAX, num_bins), FromInt(1)),
                    overflow_checks)

\* oph.rs 50-59
oph_new(num_bins, overflow_checks) ==
    LET offset == new_offset(num_bins, overflow_checks)
    IN  IF offset = Panic THEN Panic
        ELSE Ok([num_bins |-> num_bins, offset |-> offset.val,
                 indicators |-> None])

\* oph.rs 61-73: the indicators get_indicators can return. They are drawn
\* once, from the seeded generator, and kept: any boolean per bin the first
\* time, the kept ones afterwards.
get_indicators(self) ==
    IF self.indicators = None THEN [1..self.num_bins -> BOOLEAN]
    ELSE {self.indicators.val}

\* The sequence s backwards (Iterator::rev).
rev(s) == [j \in 1..Len(s) |-> s[Len(s) + 1 - j]]

\* oph.rs 92-94, 99-101: sketch[i + 1..sketch.len()].iter()
\* .chain(sketch[0..i].iter()), i counted from 1 here.
chain(sketch, i) == SubSeq(sketch, i + 1, Len(sketch)) \o SubSeq(sketch, 1, i - 1)

\* .enumerate().find(|(_, x)| !x.is_none()): the first entry that is not
\* None with its index from 0, or None.
find(walk) ==
    LET hits == {j \in 1..Len(walk) : walk[j] # None}
    IN  IF hits = {} THEN None
        ELSE LET first == CHOOSE j \in hits : \A h \in hits : j <= h
             IN  Some([index |-> first - 1, value |-> walk[first].val])

\* oph.rs 108: value + (index as u32 + 1) * offset
fill(value, index, offset, overflow_checks) ==
    LET product == u32_result(MulSmall(offset, index + 1), overflow_checks)
    IN  IF product = Panic THEN Panic
        ELSE u32_result(Add(value, product.val), overflow_checks)

\* A plausible slip: an empty sketch densifies to zeros.
dense_bin_or_zero(sketch, indicators, offset, overflow_checks, i) ==
    IF sketch[i] # None THEN Ok(sketch[i].val)
    ELSE LET search_result == IF indicators[i]
                              THEN find(chain(sketch, i))
                              ELSE find(rev(chain(sketch, i)))
         IN  IF search_result = None THEN Ok(Wrap(<<>>, 4))
             ELSE fill(search_result.val.value, search_result.val.index,
                       offset, overflow_checks)

\* oph.rs 87-112: what bin i of dense becomes, or the Err or the panic that
\* ends densify.
dense_bin(sketch, indicators, offset, overflow_checks, i) ==
    IF sketch[i] # None THEN Ok(sketch[i].val)
    ELSE LET search_result == IF indicators[i]
                              THEN find(chain(sketch, i))
                              ELSE find(rev(chain(sketch, i)))
         IN  IF search_result = None THEN Err("EmptySketch")
             ELSE fill(search_result.val.value, search_result.val.index,
                       offset, overflow_checks)

\* oph.rs 86-114: the loop over the bins from bin i on.
RECURSIVE densify_loop(_, _, _, _, _, _)
densify_loop(sketch, indicators, offset, overflow_checks, i, dense) ==
    IF i > Len(sketch) THEN Ok(dense)
    ELSE LET bin == dense_bin(sketch, indicators, offset, overflow_checks, i)
         IN  IF bin.tag # "Ok" THEN bin
             ELSE densify_loop(sketch, indicators, offset, overflow_checks,
                               i + 1, [dense EXCEPT ![i] = bin.val])

\* oph.rs 82-115, for a sketch of num_bins bins (what sketch() returns)
densify(self, indicators, sketch, overflow_checks) ==
    densify_loop(sketch, indicators, self.offset, overflow_checks, 1,
                 [j \in 1..self.num_bins |-> Wrap(<<>>, 4)])

\* The hashers made have up to MaxBins bins.
MaxBins == 4

\* The values of the bins that are not empty: 2, 2^31 + 1 and 2^32 - 1.
BinValues == {<<2, 0, 0, 0>>, <<1, 0, 0, 128>>, U32_MAX}

\* The undensified sketches of num_bins bins.
OphSketches(num_bins) == [1..num_bins -> {None} \cup {Some(v) : v \in BinValues}]

\* oph.rs 50-59
OphNew ==
    /\ app.pc = "idle"
    /\ app.fn = "main"
    /\ \E num_bins \in 0..MaxBins :
        LET made == oph_new(num_bins, app.overflow_checks)
        IN  app' = IF made = Panic
                   THEN [pc |-> "done", fn |-> "new", num_bins |-> num_bins,
                         overflow_checks |-> app.overflow_checks,
                         result |-> Panic]
                   ELSE [pc |-> "new", fn |-> "new", self |-> made.val,
                         overflow_checks |-> app.overflow_checks]
    /\ UNCHANGED <<lshVars, stepVars, poolVars, flatVars, sigVars, fanVars>>

\* oph.rs 82-115
Densify ==
    /\ app.pc = "new"
    /\ app.fn = "new"
    /\ \E sketch \in OphSketches(app.self.num_bins) :
       \E indicators \in get_indicators(app.self) :
        app' = [pc |-> "done", fn |-> "densify",
                self |-> [app.self EXCEPT !.indicators = Some(indicators)],
                overflow_checks |-> app.overflow_checks,
                sketch |-> sketch,
                result |-> densify(app.self, indicators, sketch,
                                   app.overflow_checks)]
    /\ UNCHANGED <<lshVars, stepVars, poolVars, flatVars, sigVars, fanVars>>

\* The values of the dense sketches compared: 0, 1 and 2.
DenseValues == {Wrap(FromInt(v), 4) : v \in 0..2}

\* The dense sketches handed to jaccard: every length up to MaxBins.
DenseSketches == UNION {[1..n -> DenseValues] : n \in 0..MaxBins}

\* oph.rs 207-222
OphJaccard ==
    /\ app.pc = "idle"
    /\ app.fn = "main"
    /\ \E dense_sketch_1, dense_sketch_2 \in DenseSketches :
        app' = [pc |-> "done", fn |-> "oph_jaccard",
                dense_sketch_1 |-> dense_sketch_1,
                dense_sketch_2 |-> dense_sketch_2,
                result |-> jaccard(dense_sketch_1, dense_sketch_2)]
    /\ UNCHANGED <<lshVars, stepVars, poolVars, flatVars, sigVars, fanVars>>

(***************************************************************************)
(* OnePermutationHasher::densify_optimal (oph.rs 121-142), a step per turn *)
(* of its loops. i and next_bin count from 0 as in the code. attempts is   *)
(* followed up to AttemptCap; past it only past_cap is known, next_bin is  *)
(* any bin, and the next thing followed is the u32 leaving its range: a    *)
(* panic in a build with overflow checks, attempts back at 0 in one        *)
(* without.                                                                *)
(***************************************************************************)
\* attempts is followed up to this value.
AttemptCap == 8

\* hash of every argument the followed probes take it of: i below MaxBins
\* plus attempts up to AttemptCap.
ProbeHashes ==
    [x \in 0..(MaxBins + AttemptCap) |-> hash(Wrap(FromInt(x), 4))]

\* oph.rs 128, 131: hash(i as u32 + attempts) % self.num_bins as u32
probe(i, attempts, num_bins) == ModSmall(ProbeHashes[i + attempts], num_bins)

\* oph.rs 130-131 when attempts leaves u32
opt_overflow(running) ==
    IF running.overflow_checks
    THEN [running EXCEPT !.pc = "done", !.result = Panic]
    ELSE [running EXCEPT !.attempts = 0, !.past_cap = FALSE,
                      !.next_bin = probe(running.i, 0, running.self.num_bins)]

\* oph.rs 121-122, on a sketch of num_bins bins
OptCall ==
    /\ app.pc = "new"
    /\ app.fn = "new"
    /\ \E sketch \in OphSketches(app.self.num_bins) :
        app' = [pc |-> "for", fn |-> "densify_optimal", self |-> app.self,
                overflow_checks |-> app.overflow_checks, sketch |-> sketch,
                i |-> 0, attempts |-> 0, past_cap |-> FALSE, next_bin |-> 0,
                dense |-> [j \in 1..app.self.num_bins |-> Wrap(<<>>, 4)],
                result |-> None]
    /\ UNCHANGED <<lshVars, stepVars, poolVars, flatVars, sigVars, fanVars>>

\* oph.rs 123-125: Some(val) => *val
OptKeep ==
    /\ app.pc = "for"
    /\ app.i < Len(app.sketch)
    /\ app.sketch[app.i + 1] # None
    /\ app' = [app EXCEPT !.dense[app.i + 1] = app.sketch[app.i + 1].val,
                          !.i = app.i + 1]
    /\ UNCHANGED <<lshVars, stepVars, poolVars, flatVars, sigVars, fanVars>>

\* oph.rs 126-128: None => attempts = 1 and the first probe
OptFirstProbe ==
    /\ app.pc = "for"
    /\ app.i < Len(app.sketch)
    /\ app.sketch[app.i + 1] = None
    /\ app' = [app EXCEPT !.pc = "while", !.attempts = 1, !.past_cap = FALSE,
                          !.next_bin = probe(app.i, 1, app.self.num_bins)]
    /\ UNCHANGED <<lshVars, stepVars, poolVars, flatVars, sigVars, fanVars>>

\* oph.rs 129-132: the probed bin is empty, one more attempt
OptProbe ==
    /\ app.pc = "while"
    /\ app.sketch[app.next_bin + 1] = None
    /\ ~app.past_cap
    /\ app.attempts < AttemptCap
    /\ app' = [app EXCEPT !.attempts = app.attempts + 1,
                          !.next_bin = probe(app.i, app.attempts + 1,
                                             app.self.num_bins)]
    /\ UNCHANGED <<lshVars, stepVars, poolVars, flatVars, sigVars, fanVars>>

\* oph.rs 129-132 with attempts past AttemptCap
OptProbePastCap ==
    /\ app.pc = "while"
    /\ app.sketch[app.next_bin + 1] = None
    /\ ~app.past_cap
    /\ app.attempts = AttemptCap
    /\ \E next_bin \in 0..(app.self.num_bins - 1) :
        app' = [app EXCEPT !.past_cap = TRUE, !.next_bin = next_bin]
    /\ UNCHANGED <<lshVars, stepVars, poolVars, flatVars, sigVars, fanVars>>

\* oph.rs 129-132 with attempts at u32::MAX
OptOverflow ==
    /\ app.pc = "while"
    /\ app.sketch[app.next_bin + 1] = None
    /\ app.past_cap
    /\ app' = opt_overflow(app)
    /\ UNCHANGED <<lshVars, stepVars, poolVars, flatVars, sigVars, fanVars>>

\* oph.rs 129, 133-135: the probed bin is not empty, Some(value) => value
OptFill ==
    /\ app.pc = "while"
    /\ app.sketch[app.next_bin + 1] # None
    /\ app' = [app EXCEPT !.pc = "for",
                          !.dense[app.i + 1] = app.sketch[app.next_bin + 1].val,
                          !.i = app.i + 1]
    /\ UNCHANGED <<lshVars, stepVars, poolVars, flatVars, sigVars, fanVars>>

\* oph.rs 141: Ok(dense)
OptReturn ==
    /\ app.pc = "for"
    /\ app.i = Len(app.sketch)
    /\ app' = [app EXCEPT !.pc = "done", !.result = Ok(app.dense)]
    /\ UNCHANGED <<lshVars, stepVars, poolVars, flatVars, sigVars, fanVars>>

(***************************************************************************)
(* The coordinate universe and the offset positions of a file (bed.rs      *)
(* 89-143). A chromosome name is its bytes, a length, an offset or a       *)
(* position a u32. The reader is the chromosomes of the file in the        *)
(* file's order and the entries it holds for each.                         *)
(***************************************************************************)
\* a < b, for numbers
Less(a, b) ==
    LET n == IF Len(a) > Len(b) THEN Len(a) ELSE Len(b)
        differ == {j \in 1..n : ByteAt(a, j) # ByteAt(b, j)}
    IN  /\ differ # {}
        /\ LET top == CHOOSE j \in differ : \A i \in differ : i <= j
           IN  ByteAt(a, top) < ByteAt(b, top)

\* String's Ord: a < b byte by byte, a proper prefix first.
str_less(a, b) ==
    \E k \in 1..(Len(b)) :
        /\ \A j \in 1..(k - 1) : j <= Len(a) /\ a[j] = b[j]
        /\ Len(a) >= k - 1
        /\ (k > Len(a) \/ a[k] < b[k])

\* bed.rs 10-14, 22-26: the derived Ord of ChromInfo, by name, then length,
\* then offset.
chrom_less(a, b) ==
    \/ str_less(a.name, b.name)
    \/ /\ a.name = b.name
       /\ \/ Less(a.data.length, b.data.length)
          \/ /\ a.data.length = b.data.length
             /\ Less(a.data.offset, b.data.offset)

\* bed.rs 34-41: ChromInfo::from
chrom_info(chrom) ==
    [name |-> chrom.name,
     data |-> [length |-> chrom.length, offset |-> Wrap(<<>>, 4)]]

\* bed.rs 92: Vec::sort, stable
sort(s) ==
    LET before(j) == {k \in 1..Len(s) : \/ chrom_less(s[k], s[j])
                                        \/ /\ ~chrom_less(s[j], s[k])
                                           /\ k < j}
    IN  [r \in 1..Len(s) |->
            s[CHOOSE j \in 1..Len(s) : Cardinality(before(j)) = r - 1]]

\* HashMap::insert
map_insert(map, key, value) ==
    [k \in DOMAIN map \cup {key} |-> IF k = key THEN value ELSE map[k]]

\* bed.rs 94-98: the loop, at chromosome j of the sorted ones
RECURSIVE chrom_loop(_, _, _, _, _)
chrom_loop(sorted_chroms, j, offset, chrom_and_data, overflow_checks) ==
    IF j > Len(sorted_chroms) THEN Ok(chrom_and_data)
    ELSE LET chrom == sorted_chroms[j]
             next == u32_result(Add(offset, chrom.data.length), overflow_checks)
         IN  IF next = Panic THEN Panic
             ELSE chrom_loop(sorted_chroms, j + 1, next.val,
                             map_insert(chrom_and_data, chrom.name,
                                        [length |-> chrom.data.length,
                                         offset |-> offset]),
                             overflow_checks)

\* bed.rs 89-100
get_chrom_data(chroms, overflow_checks) ==
    chrom_loop(sort([j \in 1..Len(chroms) |-> chrom_info(chroms[j])]), 1,
               Wrap(<<>>, 4), EmptyMap, overflow_checks)

\* bed.rs 68-78: the entries of the file on the chromosome of the query
\* that overlap it.
get_data(reader, interval_query) ==
    LET held == reader.data[interval_query.chrom]
        hits == {j \in 1..Len(held) : /\ Less(held[j].start, interval_query.end)
                                      /\ Less(interval_query.start, held[j].end)}
        nth(r) == CHOOSE j \in hits : Cardinality({h \in hits : h < j}) = r - 1
    IN  [r \in 1..Cardinality(hits) |-> held[nth(r)]]

\* bed.rs 102-107: entry.start += offset; entry.end += offset
RECURSIVE offset_data(_, _, _)
offset_data(data, offset, overflow_checks) ==
    IF data = <<>> THEN Ok(<<>>)
    ELSE LET start == u32_result(Add(Head(data).start, offset), overflow_checks)
             end == u32_result(Add(Head(data).end, offset), overflow_checks)
             rest == offset_data(Tail(data), offset, overflow_checks)
         IN  IF start = Panic \/ end = Panic \/ rest = Panic THEN Panic
             ELSE Ok(<<[start |-> start.val, end |-> end.val]>> \o rest.val)

\* bed.rs 119-131: the loop, at query j
RECURSIVE queries_loop(_, _, _, _, _, _)
queries_loop(reader, chrom_data, queries, j, all_data, overflow_checks) ==
    IF j > Len(queries) THEN Ok(all_data)
    ELSE IF queries[j].chrom \notin DOMAIN chrom_data
    THEN Err([chrom |-> queries[j].chrom])
    ELSE LET data == offset_data(get_data(reader, queries[j]),
                                 chrom_data[queries[j].chrom].offset,
                                 overflow_checks)
         IN  IF data = Panic THEN Panic
             ELSE queries_loop(reader, chrom_data, queries, j + 1,
                               all_data \o data.val, overflow_checks)

\* bed.rs 112-133
get_offset_intervals(reader, queries, overflow_checks) ==
    LET chrom_data == get_chrom_data(reader.chroms, overflow_checks)
    IN  IF chrom_data = Panic THEN Panic
        ELSE queries_loop(reader, chrom_data.val, queries, 1, <<>>,
                          overflow_checks)

\* The positions pushed by `for i in a..b`, a and b u32.
RECURSIVE range_u32(_, _)
range_u32(a, b) ==
    IF ~Less(a, b) THEN <<>>
    ELSE <<a>> \o range_u32(Wrap(Add(a, FromInt(1)), 4), b)

\* bed.rs 156-172 on u32 positions: the loop over data.iter().skip(1), at
\* element i.
RECURSIVE intervals_loop_u32(_, _, _, _)
intervals_loop_u32(data, i, virtual_end, result) ==
    IF i > Len(data) THEN result
    ELSE LET start == data[i].start
             end == data[i].end
         IN  IF ~Less(virtual_end, end)
             THEN intervals_loop_u32(data, i + 1, virtual_end, result)
             ELSE IF ~Less(start, virtual_end)
             THEN intervals_loop_u32(data, i + 1, end,
                                     result \o range_u32(start, end))
             ELSE intervals_loop_u32(data, i + 1, end,
                                     result \o range_u32(virtual_end, end))

\* bed.rs 145-174 on u32 positions. data[0] of an empty slice is an index
\* out of bounds.
intervals_to_vec_u32(data) ==
    IF Len(data) = 0 THEN Panic
    ELSE Ok(intervals_loop_u32(data, 2, data[1].end,
                               range_u32(data[1].start, data[1].end)))

\* bed.rs 135-143
get_offset_data(reader, queries, overflow_checks) ==
    LET intervals == get_offset_intervals(reader, queries, overflow_checks)
    IN  IF intervals = Panic THEN Panic
        ELSE IF intervals.tag = "Err" THEN intervals
        ELSE intervals_to_vec_u32(intervals.val)

\* The files have up to MaxChroms chromosomes, the calls up to MaxQueries
\* queries.
MaxChroms == 3

MaxQueries == 2

\* chr1, chr10 and chr2
ChromNames ==
    {<<99, 104, 114, 49>>, <<99, 104, 114, 49, 48>>, <<99, 104, 114, 50>>}

\* chrX, which no file of the model has
chrX == <<99, 104, 114, 88>>

\* 10 and 2^31
ChromLengths == {<<10, 0, 0, 0>>, <<0, 0, 0, 128>>}

\* ChromAndSize
ChromAndSizes == [name : ChromNames, length : ChromLengths]

\* The chromosome lists of the files: no name twice, any order.
ChromLists ==
    {s \in UNION {[1..n -> ChromAndSizes] : n \in 0..MaxChroms} :
        \A j, k \in 1..Len(s) : j # k => s[j].name # s[k].name}

\* What a file holds for a chromosome: nothing, or the entries [1, 3) and
\* [2, 4).
HeldEntries ==
    {<<>>,
     <<[start |-> Wrap(FromInt(1), 4), end |-> Wrap(FromInt(3), 4)],
       [start |-> Wrap(FromInt(2), 4), end |-> Wrap(FromInt(4), 4)]>>}

\* IntervalQuery: a chromosome of the model or chrX, from 0 to 10.
IntervalQueries ==
    [chrom : ChromNames \cup {chrX}, start : {Wrap(<<>>, 4)},
     end : {Wrap(FromInt(10), 4)}]

QueryLists == UNION {[1..n -> IntervalQueries] : n \in 0..MaxQueries}

\* bed.rs 89-100
GetChromData ==
    /\ app.pc = "idle"
    /\ app.fn = "main"
    /\ \E chroms \in ChromLists :
        app' = [pc |-> "done", fn |-> "get_chrom_data", chroms |-> chroms,
                overflow_checks |-> app.overflow_checks,
                result |-> get_chrom_data(chroms, app.overflow_checks)]
    /\ UNCHANGED <<lshVars, stepVars, poolVars, flatVars, sigVars, fanVars>>

\* bed.rs 135-143
GetOffsetData ==
    /\ app.pc = "idle"
    /\ app.fn = "main"
    /\ \E chroms \in ChromLists, queries \in QueryLists :
       \E data \in [{chroms[j].name : j \in 1..Len(chroms)} -> HeldEntries] :
        LET reader == [chroms |-> chroms, data |-> data]
        IN  app' = [pc |-> "done", fn |-> "get_offset_data",
                    reader |-> reader, queries |-> queries,
                    overflow_checks |-> app.overflow_checks,
                    result |-> get_offset_data(reader, queries,
                                               app.overflow_checks)]
    /\ UNCHANGED <<lshVars, stepVars, poolVars, flatVars, sigVars, fanVars>>

(***************************************************************************)
(* main of the two programs (bin/bigbed_oph_lsh.rs 27-72,                  *)
(* bin/bigbed_jaccard_similarity_matrix.rs 42-89): one task per path of    *)
(* the input list, on the rayon pool, collected into a Vec. A task is      *)
(* genome_wide_sketch or genome_wide_minhash, which unwrap every Result.   *)
(***************************************************************************)
\* The input lists have up to MaxFiles paths.
MaxFiles == 3

\* What a path's file does to its task: nothing, a failed download or open,
\* or data whose sketch has every bin empty.
FileKinds == {"good", "fetch_error", "empty_sketch"}

PathLists == UNION {[1..n -> FileKinds] : n \in 1..MaxFiles}

\* bigbed_oph_lsh.rs 53-72, bigbed_jaccard_similarity_matrix.rs 70-89: what
\* the task of a file returns. Only the hasher can give EmptySketchError.
genome_wide(bin, kind) ==
    IF kind = "fetch_error" THEN Panic
    ELSE IF kind = "empty_sketch" /\ bin = "bigbed_oph_lsh" THEN Panic
    ELSE Ok(kind)

\* main up to par_iter (oph_lsh 27-34, similarity_matrix 42-49)
FanMain ==
    /\ fan.pc = "idle"
    /\ \E bin \in {"bigbed_oph_lsh", "bigbed_jaccard_similarity_matrix"},
          paths \in PathLists :
        fan' = [pc |-> "par_iter", bin |-> bin, paths |-> paths,
                tasks |-> [j \in 1..Len(paths) |-> [st |-> "pending"]],
                collected |-> None, written |-> {}]
    /\ UNCHANGED <<lshVars, stepVars, poolVars, flatVars, sigVars, appVars>>

\* A worker runs the task of path j, which returns its sketch.
FanTaskReturns ==
    /\ fan.pc = "par_iter"
    /\ \E j \in 1..Len(fan.paths) :
        /\ fan.tasks[j].st = "pending"
        /\ genome_wide(fan.bin, fan.paths[j]) # Panic
        /\ fan' = [fan EXCEPT !.tasks[j] =
                      [st |-> "returned",
                       val |-> genome_wide(fan.bin, fan.paths[j]).val]]
    /\ UNCHANGED <<lshVars, stepVars, poolVars, flatVars, sigVars, appVars>>

\* A worker runs the task of path j, and an unwrap in it panics.
FanTaskPanics ==
    /\ fan.pc = "par_iter"
    /\ \E j \in 1..Len(fan.paths) :
        /\ fan.tasks[j].st = "pending"
        /\ genome_wide(fan.bin, fan.paths[j]) = Panic
        /\ fan' = [fan EXCEPT !.tasks[j] = [st |-> "panicked"]]
    /\ UNCHANGED <<lshVars, stepVars, poolVars, flatVars, sigVars, appVars>>

\* rayon, after a panic: a task that was not started yet is dropped.
FanTaskDropped ==
    /\ fan.pc = "par_iter"
    /\ \E j, k \in 1..Len(fan.paths) :
        /\ fan.tasks[k].st = "panicked"
        /\ fan.tasks[j].st = "pending"
        /\ fan' = [fan EXCEPT !.tasks[j] = [st |-> "dropped"]]
    /\ UNCHANGED <<lshVars, stepVars, poolVars, flatVars, sigVars, appVars>>

\* collect() returns the Vec (oph_lsh 36, similarity_matrix 51) and main uses
\* every entry of it (oph_lsh 38-50, similarity_matrix 53-67).
FanCollect ==
    /\ fan.pc = "par_iter"
    /\ \A j \in 1..Len(fan.paths) : fan.tasks[j].st = "returned"
    /\ fan' = [fan EXCEPT !.pc = "done",
                          !.collected = Ok([j \in 1..Len(fan.paths) |->
                                               fan.tasks[j].val]),
                          !.written = 1..Len(fan.paths)]
    /\ UNCHANGED <<lshVars, stepVars, poolVars, flatVars, sigVars, appVars>>

\* No task is left and one panicked: rayon resumes the panic in main, inside
\* collect(). main has no Vec and writes nothing.
FanUnwind ==
    /\ fan.pc = "par_iter"
    /\ \A j \in 1..Len(fan.paths) : fan.tasks[j].st # "pending"
    /\ \E j \in 1..Len(fan.paths) : fan.tasks[j].st = "panicked"
    /\ fan' = [fan EXCEPT !.pc = "done", !.collected = Panic]
    /\ UNCHANGED <<lshVars, stepVars, poolVars, flatVars, sigVars, appVars>>

(***************************************************************************)
(* intervals_to_vec statement by statement: the first element, then one    *)
(* turn of the loop per element, with virtual_end and result as the loop   *)
(* holds them.                                                             *)
(***************************************************************************)
\* A plausible slip: an interval that overlaps the covered part is pushed
\* from its own start.
loop_turn_from_start(datum, virtual_end, result) ==
    IF datum.end <= virtual_end
    THEN [virtual_end |-> virtual_end, result |-> result]
    ELSE [virtual_end |-> datum.end,
          result |-> result \o Range(datum.start, datum.end)]

\* bed.rs 157-171: one turn of the loop, for the element datum.
loop_turn(datum, virtual_end, result) ==
    IF datum.end <= virtual_end
    THEN [virtual_end |-> virtual_end, result |-> result]
    ELSE IF datum.start >= virtual_end
    THEN [virtual_end |-> datum.end,
          result |-> result \o Range(datum.start, datum.end)]
    ELSE [virtual_end |-> datum.end,
          result |-> result \o Range(virtual_end, datum.end)]

\* bed.rs 146-154: data[0] and its positions; an empty slice panics.
FlatFirst ==
    /\ flat.pc = "called"
    /\ flat' = IF Len(flat.data) = 0
               THEN [pc |-> "done", data |-> flat.data, result |-> Panic]
               ELSE [pc |-> "loop", data |-> flat.data, i |-> 2,
                     virtual_end |-> flat.data[1].end,
                     result |-> Range(flat.data[1].start, flat.data[1].end)]
    /\ UNCHANGED <<lshVars, stepVars, poolVars, sigVars, appVars, fanVars>>

\* bed.rs 156-172: the turn for the next element of data.iter().skip(1).
FlatDatum ==
    /\ flat.pc = "loop"
    /\ flat.i <= Len(flat.data)
    /\ LET turn == loop_turn(flat.data[flat.i], flat.virtual_end, flat.result)
       IN  flat' = [flat EXCEPT !.i = @ + 1,
                                !.virtual_end = turn.virtual_end,
                                !.result = turn.result]
    /\ UNCHANGED <<lshVars, stepVars, poolVars, sigVars, appVars, fanVars>>

\* bed.rs 173: the loop is over, result is returned.
FlatReturn ==
    /\ flat.pc = "loop"
    /\ flat.i > Len(flat.data)
    /\ flat' = [pc |-> "done", data |-> flat.data, result |-> Ok(flat.result)]
    /\ UNCHANGED <<lshVars, stepVars, poolVars, sigVars, appVars, fanVars>>

(***************************************************************************)
(* OnePermutationHasher::sketch and dense_sketch (oph.rs 149-201) on the   *)
(* intervals of a file.                                                    *)
(***************************************************************************)
\* hash(i) of the positions an interval of the model covers.
PositionHashes == [x \in 0..(MaxPos + 1) |-> hash(Wrap(FromInt(x), 4))]

\* A plausible slip: a bin keeps the first hash it gets.
bin_push_first(output, i, num_bins) ==
    LET current_hash == PositionHashes[i]
        bin == ModSmall(current_hash, num_bins) + 1
    IN  IF output[bin] = None
        THEN [output EXCEPT ![bin] = Some(current_hash)]
        ELSE output

\* oph.rs 157-166, 182-191: the hash of position i goes to bin
\* hash % num_bins, which keeps the smaller of what it holds and the hash.
bin_push(output, i, num_bins) ==
    LET current_hash == PositionHashes[i]
        bin == ModSmall(current_hash, num_bins) + 1
    IN  IF output[bin] = None
        THEN [output EXCEPT ![bin] = Some(current_hash)]
        ELSE IF Less(current_hash, output[bin].val)
        THEN [output EXCEPT ![bin] = Some(current_hash)]
        ELSE output

\* for i in a..b { ... }
RECURSIVE bin_push_range(_, _, _, _)
bin_push_range(output, a, b, num_bins) ==
    IF a >= b THEN output
    ELSE bin_push_range(bin_push(output, a, num_bins), a + 1, b, num_bins)

\* oph.rs 169-193: the loop over data.iter().skip(1), at element i.
RECURSIVE sketch_loop(_, _, _, _, _)
sketch_loop(data, i, virtual_end, output, num_bins) ==
    IF i > Len(data) THEN output
    ELSE LET start == data[i].start
             end == data[i].end
         IN  IF end <= virtual_end
             THEN sketch_loop(data, i + 1, virtual_end, output, num_bins)
             ELSE IF start >= virtual_end
             THEN sketch_loop(data, i + 1, end,
                              bin_push_range(output, start, end, num_bins),
                              num_bins)
             ELSE sketch_loop(data, i + 1, end,
                              bin_push_range(output, virtual_end, end, num_bins),
                              num_bins)

\* vec![elem; n]
RECURSIVE vec(_, _)
vec(elem, n) == IF n = 0 THEN <<>> ELSE Append(vec(elem, n - 1), elem)

\* oph.rs 149-196. data[0] of an empty slice is an index out of bounds.
oph_sketch(self, data) ==
    IF Len(data) = 0 THEN Panic
    ELSE Ok(sketch_loop(data, 2, data[1].end,
                        bin_push_range(vec(None, self.num_bins),
                                       data[1].start, data[1].end,
                                       self.num_bins),
                        self.num_bins))

\* oph.rs 198-201: sketch, then densify, on the intervals of the file.
DenseSketch ==
    /\ app.pc = "new"
    /\ app.fn = "new"
    /\ app.self.num_bins > 0
    /\ \E indicators \in get_indicators(app.self) :
        LET sketched == oph_sketch(app.self, flat.data)
        IN  app' = [pc |-> "done", fn |-> "dense_sketch",
                    self |-> [app.self EXCEPT !.indicators = Some(indicators)],
                    overflow_checks |-> app.overflow_checks,
                    data |-> flat.data,
                    sketch |-> sketched,
                    result |-> IF sketched = Panic THEN Panic
                               ELSE densify(app.self, indicators, sketched.val,
                                            app.overflow_checks)]
    /\ UNCHANGED <<lshVars, stepVars, poolVars, flatVars, sigVars, fanVars>>

(***************************************************************************)
(* IntervalQuery (reader.rs 44-69): is_valid and make_valid.                *)
(***************************************************************************)
\* Largest coordinate of a query.
MaxCoord == 6
\* Most calls of make_valid on one query.
MaxCalls == 2

\* IntervalQuery::new(chrom, start, end), any start and end.
NewQueries ==
    [chrom : {<<99, 104, 114, 49>>}, start : 0..MaxCoord, end : 0..MaxCoord]

\* reader.rs 55-57
is_valid(self) == self.end > self.start

\* reader.rs 62-68
make_valid(self) ==
    IF ~is_valid(self)
    THEN LET old_start == self.start
         IN  [self EXCEPT !.start = self.end, !.end = old_start]
    ELSE self

\* reader.rs 62-68, called on the query: `original` is the query as new()
\* made it, `previous` the query before the call.
MakeValid ==
    /\ app.fn = "make_valid"
    /\ app.calls < MaxCalls
    /\ app' = [app EXCEPT !.pc = "done",
                          !.previous = app.self,
                          !.self = make_valid(app.self),
                          !.calls = @ + 1]
    /\ UNCHANGED <<lshVars, stepVars, poolVars, flatVars, sigVars, fanVars>>

(***************************************************************************)
(* Specifications.                                                         *)
(***************************************************************************)
EmptySketches == [x \in {} |-> <<>>]

\* No call in progress, the Mutex free.
NoStep ==
    /\ ins = [pc |-> "idle"]
    /\ rdr = [pc |-> "idle"]
    /\ lock = None

\* Nothing on the pool.
NoPool ==
    /\ stacks = [w \in Workers |-> <<>>]
    /\ deques = [w \in Workers |-> <<>>]
    /\ latches = {}
    /\ bulk = [st |-> "idle", n |-> 0]

NoFlat == flat = [pc |-> "idle"]

\* No queue built, no other call made, no run of main.
NoRest ==
    /\ sig_a = [queue_size |-> 0, heap |-> <<>>, pushed |-> {}]
    /\ sig_b = [queue_size |-> 0, heap |-> <<>>, pushed |-> {}]
    /\ app = [pc |-> "idle"]
    /\ fan = [pc |-> "idle"]

Init ==
    /\ \E cfg \in Configs : n_hashes = cfg[1] /\ n_values = cfg[2]
    /\ sketches = EmptySketches
    /\ hashers = new_hashers
    /\ call = [op |-> "new"]
    /\ NoStep
    /\ NoPool
    /\ NoRest
    /\ NoFlat

Next == Insert \/ Query

Spec == Init /\ [][Next]_vars

\* The index and ranked_query.
NextRank == Insert \/ RankedQuery

SpecRank == Init /\ [][NextRank]_vars

\* The index and query_bulk, on an index of two bands of one value.
BulkConfigs == {<<2, 1>>}

InitBulk ==
    /\ \E cfg \in BulkConfigs : n_hashes = cfg[1] /\ n_values = cfg[2]
    /\ sketches = EmptySketches
    /\ hashers = new_hashers
    /\ call = [op |-> "new"]
    /\ NoStep
    /\ NoPool
    /\ NoRest
    /\ NoFlat

NextBulk == Insert \/ QueryBulk

SpecBulk == InitBulk /\ [][NextBulk]_vars

\* insert and the queries step by step, on an index of two bands of one
\* value.
NextConc ==
    \/ InsBegin
    \/ InsChunk
    \/ InsBandLock
    \/ InsBandPush
    \/ InsReturn
    \/ RdCall
    \/ RdLock
    \/ RdLookup
    \/ RdRank

SpecConc == InitBulk /\ [][NextConc]_vars

\* query_bulk on the pool. A worker that can run does run, and a job there
\* to be stolen is stolen: some step of the pool is taken whenever one can
\* be.
NextPool ==
    \/ QueryBulkCall
    \/ TakeInjected
    \/ Steal
    \/ Split
    \/ StartQuery
    \/ Lock
    \/ Relock
    \/ LookupBand
    \/ Unlock
    \/ JoinPop
    \/ JoinDone
    \/ JoinSteal
    \/ JobDone

SpecPool == InitBulk /\ [][NextPool]_vars /\ WF_vars(NextPool)

\* intervals_to_vec on every list of intervals.
InitFlat ==
    /\ n_hashes = 2 /\ n_values = 2
    /\ sketches = EmptySketches
    /\ hashers = new_hashers
    /\ call = [op |-> "new"]
    /\ NoStep
    /\ NoPool
    /\ NoRest
    /\ \E data \in IntervalLists : flat = [pc |-> "called", data |-> data]

NextFlat == IntervalsToVec

SpecFlat == InitFlat /\ [][NextFlat]_vars

\* intervals_to_vec statement by statement.
NextFlatSteps == FlatFirst \/ FlatDatum \/ FlatReturn

SpecFlatSteps == InitFlat /\ [][NextFlatSteps]_vars

\* An index nobody uses: the state of the specifications about the other
\* modules.
NoLsh ==
    /\ n_hashes = 2 /\ n_values = 2
    /\ sketches = EmptySketches
    /\ hashers = new_hashers
    /\ call = [op |-> "new"]
    /\ NoStep
    /\ NoPool

\* Two empty bottom-k queues (bottom_k.rs 25-30), of any queue_size.
InitSig ==
    /\ NoLsh
    /\ NoFlat
    /\ \E ka, kb \in 1..MaxK :
        /\ sig_a = [queue_size |-> ka, heap |-> <<>>, pushed |-> {}]
        /\ sig_b = [queue_size |-> kb, heap |-> <<>>, pushed |-> {}]
    /\ app = [pc |-> "new"]
    /\ fan = [pc |-> "idle"]

NextSig == Push \/ ShrinkToQueueSize \/ Merge \/ BottomKJaccard

SpecSig == InitSig /\ [][NextSig]_vars

\* hash on every argument of HashInputs.
InitHash ==
    /\ NoLsh
    /\ NoFlat
    /\ sig_a = [queue_size |-> 0, heap |-> <<>>, pushed |-> {}]
    /\ sig_b = [queue_size |-> 0, heap |-> <<>>, pushed |-> {}]
    /\ \E value \in HashInputs : app = [pc |-> "called", fn |-> "hash", value |-> value]
    /\ fan = [pc |-> "idle"]

NextHash == Hash

SpecHash == InitHash /\ [][NextHash]_vars

\* The program as either build; it makes a hasher and densifies a sketch, or
\* compares two dense sketches.
InitOph ==
    /\ NoLsh
    /\ NoFlat
    /\ sig_a = [queue_size |-> 0, heap |-> <<>>, pushed |-> {}]
    /\ sig_b = [queue_size |-> 0, heap |-> <<>>, pushed |-> {}]
    /\ \E overflow_checks \in BOOLEAN :
        app = [pc |-> "idle", fn |-> "main", overflow_checks |-> overflow_checks]
    /\ fan = [pc |-> "idle"]

NextOph == OphNew \/ Densify \/ OphJaccard

SpecOph == InitOph /\ [][NextOph]_vars

\* The program as either build; it makes a hasher and calls densify_optimal,
\* which runs on: every step that can be taken is taken in the end.
NextOpt ==
    \/ OphNew
    \/ OptCall
    \/ OptKeep
    \/ OptFirstProbe
    \/ OptProbe
    \/ OptProbePastCap
    \/ OptOverflow
    \/ OptFill
    \/ OptReturn

SpecOpt == InitOph /\ [][NextOpt]_vars /\ WF_vars(NextOpt)

\* The program as either build; it builds the coordinate universe of a
\* chromosome list, or reads the offset positions of a file.
NextBed == GetChromData \/ GetOffsetData

SpecBed == InitOph /\ [][NextBed]_vars

\* One run of either program over an input list.
InitFan ==
    /\ NoLsh
    /\ NoFlat
    /\ sig_a = [queue_size |-> 0, heap |-> <<>>, pushed |-> {}]
    /\ sig_b = [queue_size |-> 0, heap |-> <<>>, pushed |-> {}]
    /\ app = [pc |-> "idle"]
    /\ fan = [pc |-> "idle"]

NextFan ==
    \/ FanMain
    \/ FanTaskReturns
    \/ FanTaskPanics
    \/ FanTaskDropped
    \/ FanCollect
    \/ FanUnwind

SpecFan == InitFan /\ [][NextFan]_vars

\* A hasher is made and sketches the intervals of a file; the same intervals
\* are flattened.
InitSketch ==
    /\ NoLsh
    /\ \E data \in IntervalLists : flat = [pc |-> "called", data |-> data]
    /\ sig_a = [queue_size |-> 0, heap |-> <<>>, pushed |-> {}]
    /\ sig_b = [queue_size |-> 0, heap |-> <<>>, pushed |-> {}]
    /\ \E overflow_checks \in BOOLEAN :
        app = [pc |-> "idle", fn |-> "main", overflow_checks |-> overflow_checks]
    /\ fan = [pc |-> "idle"]

NextSketch == OphNew \/ DenseSketch \/ IntervalsToVec

SpecSketch == InitSketch /\ [][NextSketch]_vars

\* A query is made by IntervalQuery::new and make_valid is called on it.
InitQuery ==
    /\ NoLsh
    /\ NoFlat
    /\ sig_a = [queue_size |-> 0, heap |-> <<>>, pushed |-> {}]
    /\ sig_b = [queue_size |-> 0, heap |-> <<>>, pushed |-> {}]
    /\ \E made \in NewQueries :
        app = [pc |-> "new", fn |-> "make_valid", original |-> made,
               previous |-> made, self |-> made, calls |-> 0]
    /\ fan = [pc |-> "idle"]

NextQuery == MakeValid

SpecQuery == InitQuery /\ [][NextQuery]_vars

(***************************************************************************)
(* Properties of the index.                                                *)
(***************************************************************************)
SketchLen == n_hashes * n_values

\* Positions [i*K, (i+1)*K) of a sketch of the expected length.
BandOf(sketch, i) == [j \in 1..n_values |-> sketch[i * n_values + j]]

\* The stored sketch of id X has the band-i chunk of q at band i, for some
\* i. A sketch of another length has no band chunks.
BandMatch(q, X) ==
    /\ X \in DOMAIN sketches
    /\ Len(sketches[X]) = SketchLen
    /\ \E i \in Bands : BandOf(sketches[X], i) = BandOf(q, i)

MatchingIds(q) == {X \in Ids : BandMatch(q, X)}

Elements(seq) == {seq[j] : j \in 1..Len(seq)}

StrictlyAscending(seq) == \A j \in 1..(Len(seq) - 1) : seq[j] < seq[j + 1]

\* r is the answer of query for a sketch q of the expected length.
IsQueryAnswer(r, q) ==
    IF MatchingIds(q) = {}
    THEN r = None
    ELSE /\ r.tag = "Some"
         /\ Elements(r.val) = MatchingIds(q)
         /\ StrictlyAscending(r.val)

\* C1: query on a sketch of length L*K returns id X exactly when some band i
\* of the query equals band i of the sketch stored under X; the ids come
\* strictly ascending, and the answer is None exactly when no band matches.
C1_QueryReturnsBandMatches ==
    (call.op = "query" /\ Len(call.sketch) = SketchLen)
        => IsQueryAnswer(call.result, call.sketch)

\* A query answered with both ids, one of them found in two bands, from a
\* bucket filled in the order 2, 1.
C1_Witness ==
    /\ call.op = "query"
    /\ call.result = Some(<<1, 2>>)
    /\ \E i \in Bands : BandOf(call.sketch, i) \in DOMAIN hashers[i]
                        /\ hashers[i][BandOf(call.sketch, i)] = <<2, 1>>
    /\ \E i, k \in Bands : i # k /\ BandOf(sketches[1], i) = BandOf(call.sketch, i)
                                /\ BandOf(sketches[1], k) = BandOf(call.sketch, k)

\* The bucket of chunk c in table i, empty when there is none.
Bucket(h, i, c) == IF c \in DOMAIN h[i] THEN h[i][c] ELSE <<>>

\* C2: insert of a sketch of length L*K under an id not yet indexed stores
\* the sketch under the id and appends the id to the bucket of band i keyed
\* by positions [i*K, (i+1)*K), for every band i, creating the bucket when
\* absent; every other bucket and every other stored sketch stays as it was.
C2_InsertFillsEveryBand ==
    [][(/\ call'.op = "insert"
        /\ call'.id \notin DOMAIN sketches
        /\ call'.outcome # "ignored"
        /\ Len(call'.sketch) = SketchLen)
       => (/\ call'.outcome = "stored"
           /\ DOMAIN sketches' = DOMAIN sketches \cup {call'.id}
           /\ sketches'[call'.id] = call'.sketch
           /\ \A X \in DOMAIN sketches : sketches'[X] = sketches[X]
           /\ DOMAIN hashers' = DOMAIN hashers
           /\ \A i \in Bands :
                LET key == BandOf(call'.sketch, i)
                IN  /\ DOMAIN hashers'[i] = DOMAIN hashers[i] \cup {key}
                    /\ hashers'[i][key] = Append(Bucket(hashers, i, key), call'.id)
                    /\ \A c \in DOMAIN hashers[i] \ {key} :
                         hashers'[i][c] = hashers[i][c])]_vars

\* The second id was inserted into one bucket the first id created and into
\* one bucket of its own.
C2_Witness ==
    /\ call.op = "insert"
    /\ call.outcome = "stored"
    /\ Cardinality(DOMAIN sketches) = 2
    /\ \E i \in Bands : Len(hashers[i][BandOf(call.sketch, i)]) = 2
    /\ \E i \in Bands : Cardinality(DOMAIN hashers[i]) = 2

\* C3: insert under an id that is already indexed, whatever the sketch,
\* leaves the stored sketches and every bucket as they were. The answers of
\* query and ranked_query are functions of these (query_locked,
\* ranked_query_on), so they stay as they were too.
C3_FirstWriteWins ==
    [][(call'.op = "insert" /\ call'.id \in DOMAIN sketches)
       => (/\ sketches' = sketches
           /\ hashers' = hashers
           /\ n_hashes' = n_hashes
           /\ n_values' = n_values)]_vars

\* An insert under an id with a stored sketch and buckets was ignored.
C3_Witness ==
    /\ call.op = "insert"
    /\ call.outcome = "ignored"
    /\ call.id \in DOMAIN sketches
    /\ Len(sketches[call.id]) = SketchLen
    /\ \A i \in Bands : call.id \in Elements(hashers[i][BandOf(sketches[call.id], i)])

\* C5: every stored sketch has length L*K, also after inserts that failed,
\* and a failed insert leaves its id free for a later insert.
C5_StoredSketchesSized ==
    \A X \in DOMAIN sketches : Len(sketches[X]) = SketchLen

RECURSIVE Concat(_)
Concat(seqs) == IF seqs = <<>> THEN <<>> ELSE Head(seqs) \o Concat(Tail(seqs))

\* C6: chunk_sketch fails with IncorrectlyChunkedInput exactly when the
\* length is not L*K; otherwise it returns L bands of length K, band i being
\* positions [i*K, (i+1)*K), which concatenated give the sketch back.
C6_ChunkSketch ==
    call.op = "query"
        => LET c == chunk_sketch(call.sketch)
           IN  IF Len(call.sketch) # SketchLen
               THEN c = Err("IncorrectlyChunkedInput") /\ call.result = Panic
               ELSE /\ c.tag = "Ok"
                    /\ Len(c.val) = n_hashes
                    /\ \A i \in Bands : c.val[i + 1] = BandOf(call.sketch, i)
                    /\ \A i \in Bands : Len(c.val[i + 1]) = n_values
                    /\ Concat(c.val) = call.sketch
                    /\ call.result # Panic

\* A sketch of two bands of two values, not all alike, was chunked.
C6_Witness ==
    /\ call.op = "query"
    /\ n_hashes = 2 /\ n_values = 2
    /\ call.sketch = <<1, 2, 2, 1>>
    /\ call.result # Panic

\* The similarity of the stored sketch of X and q: agreeing positions over
\* all positions.
Similarity(X, q) ==
    <<Cardinality({j \in 1..SketchLen : sketches[X][j] = q[j]}), SketchLen>>

\* C7: ranked_query returns the ids query returns, each with the Hamming
\* similarity of its stored sketch and the query, by non-increasing
\* similarity, ids of equal similarity by descending id: a list fixed by the
\* stored sketches and the query alone.
C7_RankedQuery ==
    (call.op = "ranked_query" /\ Len(call.sketch) = SketchLen)
        => LET r == call.result
               q == call.sketch
           IN  IF MatchingIds(q) = {}
               THEN r = None /\ query(q) = None
               ELSE /\ r.tag = "Some"
                    /\ Len(r.val) = Cardinality(MatchingIds(q))
                    /\ {r.val[j].id : j \in 1..Len(r.val)} = MatchingIds(q)
                    /\ {r.val[j].id : j \in 1..Len(r.val)} = Elements(query(q).val)
                    /\ \A j \in 1..Len(r.val) :
                         r.val[j].jac = Similarity(r.val[j].id, q)
                    /\ \A j \in 1..(Len(r.val) - 1) :
                         \/ FracLess(r.val[j + 1].jac, r.val[j].jac)
                         \/ /\ FracEq(r.val[j + 1].jac, r.val[j].jac)
                            /\ r.val[j + 1].id < r.val[j].id

\* Two candidates of equal similarity below 1 were ranked.
C7_Witness ==
    /\ call.op = "ranked_query"
    /\ call.result.tag = "Some"
    /\ Len(call.result.val) = 2
    /\ call.result.val[1].jac = call.result.val[2].jac
    /\ call.result.val[1].jac[1] < SketchLen
    /\ sketches[1] # sketches[2]

\* C8: query_bulk on sketches of length L*K returns one entry per sketch,
\* entry j being the answer of query for sketch j.
C8_QueryBulk ==
    call.op = "query_bulk"
        => IF \A j \in 1..Len(call.batch) : Len(call.batch[j]) = SketchLen
           THEN /\ call.result.tag = "Ok"
                /\ Len(call.result.val) = Len(call.batch)
                /\ \A j \in 1..Len(call.batch) :
                     /\ IsQueryAnswer(call.result.val[j], call.batch[j])
                     /\ call.result.val[j] = query(call.batch[j])
           ELSE call.result = Panic

\* A batch of two sketches with different answers, one of them None.
C8_Witness ==
    /\ call.op = "query_bulk"
    /\ call.result.tag = "Ok"
    /\ Len(call.batch) = 2
    /\ call.result.val[1].tag = "Some"
    /\ call.result.val[2] = None

\* The bands in which id X is in some bucket.
BandsHolding(X) ==
    {i \in Bands : \E c \in DOMAIN hashers[i] : X \in Elements(hashers[i][c])}

\* Every id is in a bucket of every band or of none, and an id in a bucket
\* has its stored sketch.
WholeIndex ==
    \A X \in Ids :
        /\ BandsHolding(X) \in {{}, Bands}
        /\ BandsHolding(X) # {} => X \in DOMAIN sketches

\* C4: the index a query or ranked_query reads, under its lock and when it
\* ranks, is whole: no id is in some of its L band buckets and absent from
\* others, none is in a bucket without its stored sketch; what the call
\* returns is the answer on the index as the completed inserts left it.
C4_InsertAtomic ==
    /\ rdr.pc \in {"lookup", "rank"} => WholeIndex
    /\ call.op = "query" => call.result = query(call.sketch)
    /\ call.op = "ranked_query" => call.result = ranked_query(call.sketch)

\* A query holds the Mutex for its lookups, on an index where the last
\* insert put its id into every band, the query's sketch being that id's.
C4_Witness ==
    /\ rdr.pc = "lookup"
    /\ lock = Some("query")
    /\ call.op = "insert"
    /\ call.outcome = "stored"
    /\ BandsHolding(call.id) = Bands
    /\ rdr.sketch = sketches[call.id]

\* C9: a query_bulk call on a finite list of sketches of length L*K
\* eventually returns: its queries never deadlock, also when a worker that
\* holds the lock and waits for its band tasks picks up another query of
\* the batch.
C9_QueryBulkReturns == <>(bulk.st = "returned")

\* The positions covered by at least one interval.
Covered(data) ==
    {p \in 0..MaxPos : \E j \in 1..Len(data) :
        data[j].start <= p /\ p < data[j].end}

SortedByStart(data) ==
    \A j \in 1..(Len(data) - 1) : data[j].start <= data[j + 1].start

\* C10: for every list of intervals sorted by start, flattening returns
\* exactly the positions covered by at least one interval, strictly
\* ascending.
C10_FlattenCoversExactly ==
    (flat.pc = "done" /\ SortedByStart(flat.data))
        => /\ flat.result.tag = "Ok"
           /\ Elements(flat.result.val) = Covered(flat.data)
           /\ StrictlyAscending(flat.result.val)

\* The k smallest elements of the set S in the order (hash, value).
KSmallest(S, k) == {x \in S : Cardinality({y \in S : elem_less(y, x)}) < k}

\* C11: bottom-k jaccard(A, B) is |M \cap A \cap B| / k, M the k smallest
\* (hash, value) elements of the duplicate-free union of the members of A
\* and B, k the queue_size of A whatever the number of elements A or B
\* holds; so two queues with no common member give 0.
C11_BottomKJaccard ==
    (app.pc = "done" /\ app.fn = "jaccard")
        => LET in_a == Elements(sig_a.heap)
               in_b == Elements(sig_b.heap)
               M == KSmallest(in_a \cup in_b, sig_a.queue_size)
           IN  /\ app.result = <<Cardinality(M \cap in_a \cap in_b),
                                 sig_a.queue_size>>
               /\ (in_a \cap in_b = {}) => app.result[1] = 0

\* jaccard gave 1/2 with k = 2: one common member among the two smallest of
\* the union, a second common member beyond them, and B holding one more
\* element than k.
C11_Witness ==
    /\ app.pc = "done" /\ app.fn = "jaccard"
    /\ sig_a.queue_size = 2
    /\ app.result = <<1, 2>>
    /\ Cardinality(Elements(sig_a.heap) \cap Elements(sig_b.heap)) = 2
    /\ Len(sig_b.heap) = 3

\* The queue the last call was made on.
LastQueue == IF app.on = "a" THEN sig_a ELSE sig_b

\* C12: after any pushes followed by shrink, the members of the queue are
\* exactly the k smallest elements among the distinct elements pushed (all
\* of them when there are fewer than k), its minimum is the minimum of
\* everything pushed, and a second shrink changes nothing.
C12_ShrinkKeepsKSmallest ==
    (app.pc = "built" /\ app.fn = "shrink_to_queue_size")
        => LET q == LastQueue
               kept == KSmallest(q.pushed, q.queue_size)
           IN  /\ Elements(q.heap) = kept
               /\ q.pushed # {} => Head(q.heap) \in KSmallest(q.pushed, 1)
               /\ shrink_to_queue_size(q) = q

\* a div 2^32, a below 2^64
High32(a) == Wrap(SubSeq(Wrap(a, 8), 5, 8), 4)

\* C20: hash(x) is the high 32 bits of (A*x + B) mod 2^64, A and B the two
\* constants of the specification, whatever the 32-bit x; hash(100) is
\* 48913034.
C20_Hash ==
    (app.pc = "done" /\ app.fn = "hash")
        => /\ app.result = High32(Wrap(Add(Mul(A, app.value), B), 8))
           /\ Len(app.result) = 4
           /\ app.value = Wrap(FromInt(100), 4)
                => app.result = Wrap(FromGroups(<<48, 913, 34>>), 4)

\* hash was taken of 100, and of an argument whose product with A does not
\* fit 64 bits.
C20_Witness ==
    /\ app.pc = "done" /\ app.fn = "hash"
    /\ \/ app.value = <<100, 0, 0, 0>>
       \/ Len(Mul(A, app.value)) > 8 /\ app.value[4] = 255

(***************************************************************************)
(* Properties of the one-permutation hasher.                               *)
(***************************************************************************)
\* Bin i of a sketch of n bins after d steps round the circle, forward or
\* backward.
Walked(i, n, d, forward) ==
    IF forward THEN ((i - 1 + d) % n) + 1 ELSE ((i - 1 + n - d) % n) + 1

\* The number of bins walked from the empty bin i to the nearest bin that is
\* not empty.
Distance(sketch, i, forward) ==
    CHOOSE d \in 1..(Len(sketch) - 1) :
        /\ sketch[Walked(i, Len(sketch), d, forward)] # None
        /\ \A c \in 1..(d - 1) : sketch[Walked(i, Len(sketch), c, forward)] = None

\* floor((2^32 - 1) / num_bins) + 1, as a number
ExactOffset(num_bins) == Add(DivSmall(U32_MAX, num_bins), FromInt(1))

\* densify was called on a sketch with a bin that is not empty.
DensifiedSome ==
    /\ app.pc = "done" /\ app.fn = "densify"
    /\ \E i \in 1..Len(app.sketch) : app.sketch[i] # None

\* C13: densify of a sketch that is not all empty returns num_bins values,
\* none empty: bin i unchanged when it was not empty, else the value of the
\* nearest non-empty bin, walking forward when indicator i is true and
\* backward when false, plus (bins walked) * (floor((2^32-1)/num_bins) + 1).
C13_DensifyFills ==
    DensifiedSome =>
        /\ app.result.tag = "Ok"
        /\ Len(app.result.val) = app.self.num_bins
        /\ \A i \in 1..app.self.num_bins :
            LET forward == app.self.indicators.val[i]
                d == Distance(app.sketch, i, forward)
                neighbor == app.sketch[Walked(i, app.self.num_bins, d, forward)]
            IN  IF app.sketch[i] # None
                THEN app.result.val[i] = app.sketch[i].val
                ELSE Canon(app.result.val[i])
                         = Add(neighbor.val,
                               MulSmall(ExactOffset(app.self.num_bins), d))

\* densify was called on a sketch of empty bins only.
DensifiedNone ==
    /\ app.pc = "done" /\ app.fn = "densify"
    /\ \A i \in 1..Len(app.sketch) : app.sketch[i] = None

\* C15: densify of a sketch whose bins are all empty returns
\* EmptySketchError, and so no sketch, whatever the number of bins and the
\* indicators.
C15_DensifyAllEmpty == DensifiedNone => app.result = Err("EmptySketch")

\* densify was called on three empty bins with indicators of both kinds.
C15_Witness ==
    /\ DensifiedNone
    /\ app.self.num_bins = 3
    /\ app.self.indicators = Some(<<TRUE, FALSE, TRUE>>)

\* The number of positions at which a and b, equally long, hold the same
\* value.
Matches(a, b) == Cardinality({j \in DOMAIN a : a[j] = b[j]})

\* C16: jaccard of two dense sketches of different lengths is
\* SketchLengthMismatchError; of two of the same length it is the number of
\* positions that agree over the length, the same for (b, a), and 1 when a
\* and b are the same non-empty sketch.
C16_OphJaccard ==
    (app.pc = "done" /\ app.fn = "oph_jaccard") =>
        LET a == app.dense_sketch_1
            b == app.dense_sketch_2
        IN  IF Len(a) # Len(b)
            THEN app.result = Err("SketchLengthMismatch")
            ELSE /\ app.result = Ok(<<Matches(a, b), Len(a)>>)
                 /\ app.result = jaccard(b, a)
                 /\ (a = b /\ Len(a) > 0)
                        => (app.result.val[1] = app.result.val[2])

\* jaccard was called on [1, 2, 0] and [1, 0].
C16_Witness ==
    /\ app.pc = "done" /\ app.fn = "oph_jaccard"
    /\ app.dense_sketch_1 = <<Wrap(FromInt(1), 4), Wrap(FromInt(2), 4), Wrap(FromInt(0), 4)>>
    /\ app.dense_sketch_2 = <<Wrap(FromInt(1), 4), Wrap(FromInt(0), 4)>>
    /\ app.result.tag = "Err"

\* Every bin of the sketch is empty.
AllEmpty(sketch) == \A j \in 1..Len(sketch) : sketch[j] = None

\* C14: densify_optimal returns on every sketch: EmptySketchError when every
\* bin is empty, and else a sketch whose every bin holds the value of a bin
\* that was not empty.
C14_DensifyOptimalTerminates ==
    (app.fn = "densify_optimal")
        ~> /\ app.fn = "densify_optimal"
           /\ app.pc = "done"
           /\ IF AllEmpty(app.sketch)
              THEN app.result = Err("EmptySketch")
              ELSE /\ app.result.tag = "Ok"
                   /\ \A j \in 1..Len(app.sketch) :
                        \E k \in 1..Len(app.sketch) :
                            app.sketch[k] = Some(app.result.val[j])

(***************************************************************************)
(* Properties of the coordinate universe and of the offset positions.      *)
(***************************************************************************)
\* The sum of the lengths of the chromosomes of the set S, as a number.
RECURSIVE SumLengths(_)
SumLengths(S) ==
    IF S = {} THEN <<>>
    ELSE LET c == CHOOSE c \in S : TRUE
         IN  Add(c.length, SumLengths(S \ {c}))

\* The chromosomes of a list, and those whose name sorts before that of c.
ChromSet(chroms) == {chroms[j] : j \in 1..Len(chroms)}

SortingBefore(chroms, c) == {d \in ChromSet(chroms) : str_less(d.name, c.name)}

\* The orders a list can be given in.
Reorderings(s) ==
    {[j \in 1..Len(s) |-> s[p[j]]] :
        p \in {f \in [1..Len(s) -> 1..Len(s)] :
                 \A j, k \in 1..Len(s) : f[j] = f[k] => j = k}}

\* a <= b, for numbers
AtMost(a, b) == ~Less(b, a)

\* C17: get_chrom_data gives every chromosome of the list the offset that is
\* the sum of the lengths of those whose name sorts before its own (0 for
\* the smallest name), so that the ranges [offset, offset + length) are
\* disjoint and cover [0, total length), and gives the same for every order
\* of the list.
C17_ChromOffsets ==
    (app.pc = "done" /\ app.fn = "get_chrom_data") =>
        LET chroms == ChromSet(app.chroms)
            got == app.result.val
            End(c) == Add(got[c.name].offset, c.length)
        IN  /\ app.result.tag = "Ok"
            /\ DOMAIN got = {c.name : c \in chroms}
            /\ \A c \in chroms :
                /\ got[c.name].length = c.length
                /\ Canon(got[c.name].offset)
                       = SumLengths(SortingBefore(app.chroms, c))
                /\ AtMost(End(c), SumLengths(chroms))
            /\ \A c, d \in chroms :
                str_less(c.name, d.name)
                    => /\ Less(got[c.name].offset, got[d.name].offset)
                       /\ AtMost(End(c), got[d.name].offset)
            /\ \A other \in Reorderings(app.chroms) :
                get_chrom_data(other, app.overflow_checks) = app.result

\* The chromosomes of the file read.
FileNames == {app.reader.chroms[j].name : j \in 1..Len(app.reader.chroms)}

\* The queries on a chromosome the file lacks.
Missing == {j \in 1..Len(app.queries) : app.queries[j].chrom \notin FileNames}

\* C19: when a query of the list, in any place, names a chromosome the file
\* lacks, get_offset_data returns the ChromNotFound error that names the
\* first such chromosome, and no positions.
C19_ChromNotFound ==
    (app.pc = "done" /\ app.fn = "get_offset_data" /\ Missing # {}) =>
        LET first == CHOOSE j \in Missing : \A k \in Missing : j <= k
        IN  app.result = Err([chrom |-> app.queries[first].chrom])

(***************************************************************************)
(* Properties of the fan-out.                                              *)
(***************************************************************************)
\* C18: when main is over, the sketch of every file whose own task does not
\* fail was built and collected, and the results that rest on it are
\* produced, whatever the tasks of the other files did.
C18_FailureIsolated ==
    fan.pc = "done" =>
        \A j \in 1..Len(fan.paths) :
            genome_wide(fan.bin, fan.paths[j]) # Panic
                => /\ fan.tasks[j].st = "returned"
                   /\ fan.collected.tag = "Ok"
                   /\ fan.collected.val[j] = genome_wide(fan.bin, fan.paths[j]).val
                   /\ j \in fan.written

(***************************************************************************)
(* The band tables against the stored sketches.                            *)
(***************************************************************************)
\* Every stored sketch has the length the index was built for: the state
\* after inserts of correctly sized sketches only.
AllSized == \A X \in DOMAIN sketches : Len(sketches[X]) = SketchLen

\* The ids stored with chunk c in band i.
StoredWith(i, c) == {X \in DOMAIN sketches : BandOf(sketches[X], i) = c}

\* The number of buckets, over all bands, that hold id X.
BucketsHolding(X) ==
    Cardinality({<<i, c>> \in
        UNION {{<<i, c>> : c \in DOMAIN hashers[i]} : i \in DOMAIN hashers} :
            X \in Elements(hashers[i][c])})

\* C27: after inserts of correctly sized sketches the band tables have the
\* keys 0..L-1, the bucket of band i under chunk c holds exactly the ids
\* whose stored sketch has c as its band-i chunk, each once; every id in a
\* bucket has a stored sketch and every stored id is in exactly L buckets.
C27_BandTables ==
    AllSized =>
        /\ DOMAIN hashers = 0..(n_hashes - 1)
        /\ \A i \in DOMAIN hashers : \A c \in DOMAIN hashers[i] :
              /\ Elements(hashers[i][c]) = StoredWith(i, c)
              /\ Cardinality(Elements(hashers[i][c])) = Len(hashers[i][c])
              /\ Elements(hashers[i][c]) \subseteq DOMAIN sketches
        /\ \A X \in DOMAIN sketches : BucketsHolding(X) = n_hashes

\* Two ids are stored, share the bucket of band 0 and are apart in band 1.
C27_Witness ==
    /\ AllSized
    /\ n_hashes >= 2
    /\ DOMAIN sketches = {1, 2}
    /\ BandOf(sketches[1], 0) = BandOf(sketches[2], 0)
    /\ BandOf(sketches[1], 1) # BandOf(sketches[2], 1)
    /\ Len(hashers[0][BandOf(sketches[1], 0)]) = 2


(***************************************************************************)
(* The per-band tasks of one insert.                                       *)
(***************************************************************************)
\* The tables with id taken out of every bucket, and the buckets left empty
\* taken out of their table: the tables before the insert of id.
Strip(h, id) ==
    LET Other(x) == x # id
        kept(i) == {c \in DOMAIN h[i] : SelectSeq(h[i][c], Other) # <<>>}
    IN  [i \in DOMAIN h |-> [c \in kept(i) |-> SelectSeq(h[i][c], Other)]]

\* How many times id is in the buckets of band i.
TimesIn(h, i, id) ==
    LET places == UNION {{<<c, j>> : j \in 1..Len(h[i][c])} : c \in DOMAIN h[i]}
    IN  Cardinality({p \in places : h[i][p[1]][p[2]] = id})

\* C28: whatever the order in which the L band tasks of insert(sketch, id)
\* take the lock, the tables they leave are those the tasks run in band
\* order leave, with id once in the bucket of its chunk in each band; each
\* task appends id to one bucket of its own band and touches nothing else.
C28_BandTasksCommute ==
    /\ [](ins.pc = "bands" /\ ins.pending = {} =>
            /\ hashers = insert_bands(Strip(hashers, ins.id), ins.chunked, ins.id, 0)
            /\ \A i \in Bands :
                  /\ TimesIn(hashers, i, ins.id) = 1
                  /\ ins.id \in Elements(Bucket(hashers, i, ins.chunked[i + 1])))
    /\ [][ins.pc = "band" =>
            /\ \A i \in Bands \ {ins.at} : hashers'[i] = hashers[i]
            /\ \A c \in DOMAIN hashers[ins.at] \ {ins.chunked[ins.at + 1]} :
                  Bucket(hashers', ins.at, c) = hashers[ins.at][c]
            /\ Bucket(hashers', ins.at, ins.chunked[ins.at + 1]) =
                  Append(Bucket(hashers, ins.at, ins.chunked[ins.at + 1]), ins.id)
            /\ DOMAIN hashers'[ins.at] =
                  DOMAIN hashers[ins.at] \cup {ins.chunked[ins.at + 1]}]_vars

\* The task of band 0 runs last, after that of band 1, and is about to push
\* id 2 on a bucket that holds id 1.
C28_Witness ==
    /\ ins.pc = "band"
    /\ n_hashes >= 2
    /\ ins.at = 0
    /\ ins.pending = {0}
    /\ ins.id = 2
    /\ Bucket(hashers, 0, ins.chunked[1]) = <<1>>
    /\ TimesIn(hashers, 1, 2) = 1


(***************************************************************************)
(* The similarity of the candidates of ranked_query.                       *)
(***************************************************************************)
\* The hit ranked_query reports for id in the result r, or None.
HitOf(r, id) ==
    IF r.tag = "Some" /\ \E j \in 1..Len(r.val) : r.val[j].id = id
    THEN Some((CHOOSE j \in 1..Len(r.val) : r.val[j].id = id))
    ELSE None

\* ranked_query(s) on the index insert(s, id) leaves reports id with
\* similarity 1.
FoundAfterInsert(s, id) ==
    LET after == insert(s, id)
        r == ranked_query_on(after.sketches, after.hashers, s)
        hit == HitOf(r, id)
    IN  /\ hit.tag = "Some"
        /\ r.val[hit.val].jac = <<SketchLen, SketchLen>>

\* Every candidate of the ranked_query just made agrees with the query on
\* at least K of the L*K positions: similarity at least 1/L and above 0.
CandidatesShareABand ==
    (call.op = "ranked_query" /\ call.result.tag = "Some") =>
        \A j \in 1..Len(call.result.val) :
            LET jac == call.result.val[j].jac
            IN  /\ jac = Similarity(call.result.val[j].id, call.sketch)
                /\ jac[2] = n_hashes * n_values
                /\ jac[1] >= n_values
                /\ jac[1] * n_hashes >= jac[2]
                /\ jac[1] > 0

\* C30: every candidate of ranked_query agrees with the query on at least
\* K of the L*K positions, so its similarity is at least 1/L and never 0;
\* after insert(s, id) of a sketch s of length L*K under an id not indexed
\* before, ranked_query(s) contains id with similarity 1.
C30_CandidateSimilarity ==
    /\ CandidatesShareABand
    /\ \A s \in SizedSketches : \A id \in Ids \ DOMAIN sketches :
          FoundAfterInsert(s, id)

\* C30 as stated: the same with insert(s, id) under any id, indexed before
\* or not, in an index whose stored sketches all have length L*K.
C30_AfterAnyInsert ==
    /\ CandidatesShareABand
    /\ AllSized => \A s \in SizedSketches : \A id \in Ids : FoundAfterInsert(s, id)

\* A ranked_query returned a candidate that shares one band with the query
\* and no more, in an index of two bands, and an id is free for an insert.
C30_Witness ==
    /\ call.op = "ranked_query"
    /\ call.result.tag = "Some"
    /\ n_hashes = 2
    /\ \E j \in 1..Len(call.result.val) : call.result.val[j].jac = <<n_values, SketchLen>>
    /\ Ids \ DOMAIN sketches # {}


(***************************************************************************)
(* merge, and the bottom-k jaccard of a queue with itself.                 *)
(***************************************************************************)
\* The queue merge was last called on, and the other one.
MergeSelf == IF app.on = "a" THEN sig_a ELSE sig_b
MergeOther == IF app.on = "a" THEN sig_b ELSE sig_a

\* C23: merge(A, B) returns a new queue holding the k smallest (hash, value)
\* elements of the duplicate-free union of the members of A and B, k the
\* queue_size of A, at most k of them and none twice; A and B are left as
\* they were; with the same k, merge(B, A) holds the same elements.
C23_Merge ==
    /\ []((app.pc = "built" /\ app.fn = "merge") =>
            LET qa == MergeSelf
                qb == MergeOther
                r == app.result
                union == Elements(qa.heap) \cup Elements(qb.heap)
            IN  /\ r.queue_size = qa.queue_size
                /\ Elements(r.heap) = KSmallest(union, qa.queue_size)
                /\ Len(r.heap) <= qa.queue_size
                /\ Len(r.heap) = Cardinality(Elements(r.heap))
                /\ qa.queue_size = qb.queue_size => merge(qb, qa).heap = r.heap)
    /\ [][(app'.pc = "built" /\ app'.fn = "merge")
            => (sig_a' = sig_a /\ sig_b' = sig_b)]_vars

\* A merge of two queues with a common member and three distinct elements
\* between them returned the two smallest.
C23_Witness ==
    /\ app.pc = "built" /\ app.fn = "merge"
    /\ app.result.queue_size = 2
    /\ Len(app.result.heap) = 2
    /\ Elements(sig_a.heap) \cap Elements(sig_b.heap) # {}
    /\ Cardinality(Elements(sig_a.heap) \cup Elements(sig_b.heap)) = 3

\* C24: the bottom-k jaccard of a shrunk queue with itself is 1, also when
\* the queue holds fewer than k elements (the queue of a file that covers a
\* position holds one element at least).
C24_SelfJaccard ==
    (/\ app.pc = "done" /\ app.fn = "jaccard"
     /\ sig_a.heap # <<>>
     /\ sig_a.heap = sig_b.heap
     /\ sig_a.queue_size = sig_b.queue_size
     /\ shrink_to_queue_size(sig_a) = sig_a)
        => FracEq(app.result, <<1, 1>>)


(***************************************************************************)
(* The loop of intervals_to_vec on lists in any order.                     *)
(***************************************************************************)
\* The positions a turn of the loop pushed.
Pushed == SubSeq(flat'.result, Len(flat.result) + 1, Len(flat'.result))

\* C29: for any list of intervals, sorted or not, the positions flattening
\* emits are strictly ascending and virtual_end never decreases: an interval
\* contributes positions of its own at or beyond the virtual_end it finds
\* and nothing else, so one that starts before an earlier interval
\* contributes at most its part from virtual_end on.
C29_FlattenAnyOrder ==
    /\ [](flat.pc = "loop" =>
            /\ StrictlyAscending(flat.result)
            /\ \A j \in 1..Len(flat.result) : flat.result[j] < flat.virtual_end)
    /\ [](flat.pc = "done" =>
            /\ flat.result = intervals_to_vec(flat.data)
            /\ flat.result.tag = "Ok" => StrictlyAscending(flat.result.val))
    /\ [][(flat.pc = "loop" /\ flat'.pc = "loop") =>
            LET datum == flat.data[flat.i]
            IN  /\ flat'.virtual_end >= flat.virtual_end
                /\ SubSeq(flat'.result, 1, Len(flat.result)) = flat.result
                /\ \A j \in 1..Len(Pushed) :
                      /\ Pushed[j] >= flat.virtual_end
                      /\ datum.start <= Pushed[j] /\ Pushed[j] < datum.end
                /\ datum.start < flat.virtual_end =>
                      Pushed = Range(flat.virtual_end, datum.end)]_vars

\* A list out of order was flattened: its third interval starts before the
\* second and reaches beyond it, and the positions came out ascending.
C29_Witness ==
    /\ flat.pc = "done"
    /\ Len(flat.data) = 3
    /\ flat.data[3].start < flat.data[2].start
    /\ flat.data[3].end > flat.data[2].end
    /\ flat.data[2].end > flat.data[1].end
    /\ flat.result.tag = "Ok"
    /\ Len(flat.result.val) = 3


(***************************************************************************)
(* The sketch of a file against its flattened positions, and the sums of   *)
(* densify on a sketch.                                                    *)
(***************************************************************************)
\* The emitted positions whose hash falls in bin b (counted from 1) of n.
InBin(positions, b, n) ==
    {x \in Elements(positions) : ModSmall(PositionHashes[x], n) = b - 1}

\* v is the smallest hash of the positions S, a set that is not empty.
MinHashOf(v, S) ==
    /\ \E x \in S : v = PositionHashes[x]
    /\ \A y \in S : ~Less(PositionHashes[y], v)

\* dense_sketch sketched the intervals, and the same intervals were
\* flattened.
SketchedAndFlattened ==
    /\ app.pc = "done" /\ app.fn = "dense_sketch"
    /\ flat.pc = "done"

\* C21: for every list of intervals, bin b of the sketch built from the
\* intervals is the smallest hash(x) over the positions x that flattening
\* the same intervals emits with hash(x) mod num_bins = b, and empty when
\* there is no such position.
C21_SketchOfPositions ==
    SketchedAndFlattened =>
        IF flat.result = Panic THEN app.sketch = Panic
        ELSE /\ app.sketch.tag = "Ok"
             /\ Len(app.sketch.val) = app.self.num_bins
             /\ \A b \in 1..app.self.num_bins :
                  LET S == InBin(flat.result.val, b, app.self.num_bins)
                  IN  IF S = {} THEN app.sketch.val[b] = None
                      ELSE /\ app.sketch.val[b] # None
                           /\ MinHashOf(app.sketch.val[b].val, S)

\* Three intervals, the last starting before the second and reaching beyond
\* it, were sketched in 3 bins, one of which got two positions and one none.
C21_Witness ==
    /\ SketchedAndFlattened
    /\ app.self.num_bins = 3
    /\ Len(flat.data) = 3
    /\ flat.data[3].start < flat.data[2].start
    /\ flat.data[3].end > flat.data[2].end
    /\ \E b \in 1..3 : Cardinality(InBin(flat.result.val, b, 3)) >= 2
    /\ \E b \in 1..3 : app.sketch.val[b] = None

\* C26: for every sketch that sketch() returns with an empty bin and a bin
\* that is not, densify's value + d * offset and its d * offset (d up to
\* num_bins - 1) fit a u32: the arithmetic never overflows.
C26_DensifyFits ==
    (/\ app.pc = "done" /\ app.fn = "dense_sketch"
     /\ app.sketch.tag = "Ok"
     /\ \E i \in 1..app.self.num_bins : app.sketch.val[i] # None)
        => /\ app.result.tag = "Ok"
           /\ \A i \in 1..app.self.num_bins :
                app.sketch.val[i] = None =>
                    LET forward == app.self.indicators.val[i]
                        d == Distance(app.sketch.val, i, forward)
                        neighbor == app.sketch.val[Walked(i, app.self.num_bins,
                                                         d, forward)]
                        product == MulSmall(app.self.offset, d)
                    IN  /\ d <= app.self.num_bins - 1
                        /\ Len(Canon(product)) <= 4
                        /\ Len(Canon(Add(neighbor.val, product))) <= 4
                        /\ app.result.val[i] = Wrap(Add(neighbor.val, product), 4)


(***************************************************************************)
(* The positions of get_offset_data for queries in any order.              *)
(***************************************************************************)
\* The chromosome of the file that query j names.
QueriedChrom(j) ==
    CHOOSE c \in ChromSet(app.reader.chroms) : c.name = app.queries[j].chrom

\* The bases of the chromosome that the intervals fetched for query j cover.
FetchedBases(j) ==
    LET fetched == get_data(app.reader, app.queries[j])
    IN  {p \in 0..10 : \E k \in 1..Len(fetched) :
            /\ ~Less(FromInt(p), fetched[k].start)
            /\ Less(FromInt(p), fetched[k].end)}

\* offset(chrom) + p for every base p covered by an interval fetched for a
\* query, offset(chrom) the sum of the lengths of the chromosomes whose name
\* sorts before.
GlobalPositions ==
    UNION {{Canon(Add(SumLengths(SortingBefore(app.reader.chroms, QueriedChrom(j))),
                      FromInt(p))) : p \in FetchedBases(j)} :
           j \in 1..Len(app.queries)}

\* C22: for queries on chromosomes of the file, listed in any order,
\* get_offset_data returns offset(chrom) + p for every base p covered by a
\* fetched interval, each once and none missing (for a file whose lengths
\* sum below 2^32 and queries that fetch an interval).
C22_OffsetPositions ==
    (/\ app.pc = "done" /\ app.fn = "get_offset_data"
     /\ Missing = {}
     /\ Len(SumLengths(ChromSet(app.reader.chroms))) <= 4
     /\ GlobalPositions # {})
        => /\ app.result.tag = "Ok"
           /\ {Canon(app.result.val[j]) : j \in 1..Len(app.result.val)}
                  = GlobalPositions
           /\ Len(app.result.val) = Cardinality(GlobalPositions)


(***************************************************************************)
(* make_valid.                                                             *)
(***************************************************************************)
\* C25: after make_valid the query is valid, its end above its start: a
\* query made with end <= start has its bounds swapped, a valid one is as it
\* was made, and a second make_valid changes nothing.
C25_MakeValid ==
    (app.fn = "make_valid" /\ app.calls >= 1) =>
        /\ app.self.end > app.self.start
        /\ app.self.chrom = app.original.chrom
        /\ app.original.end <= app.original.start =>
              /\ app.self.start = app.original.end
              /\ app.self.end = app.original.start
        /\ app.original.end > app.original.start => app.self = app.original
        /\ app.calls >= 2 => app.self = app.previous


=============================================================================
